---------------------------- MODULE Spec2Model ----------------------------
(***************************************************************************)
(* A model of the aggregation scripts of autoware-contributor-metrics:     *)
(*   scripts/calculate_contributor_history.py  (ContributorHistory, main)  *)
(*   scripts/calculate_stargazers_history.py   (StarsHistoryAnalyzer)      *)
(*   scripts/calculate_rankings.py             (RankingCalculator)         *)
(*                                                                         *)
(* Representation of Python values                                         *)
(*   str               a sequence of code points ("bob" is <<98,111,98>>); *)
(*                     the empty sequence also stands for a JSON null in   *)
(*                     a place where the code only tests truthiness.       *)
(*   datetime          <<year, month, day, second of the day>>             *)
(*   date              <<year, month, day>>                                *)
(*   dict (order-free) a function; its DOMAIN is the key set               *)
(*   dict (iterated)   a sequence of entries in insertion order            *)
(*   list              a sequence                                          *)
(* Each subsystem has its own variables and its own specification; a       *)
(* specification keeps the other subsystems' variables at their initial    *)
(* values.                                                                 *)
(***************************************************************************)
EXTENDS Integers, Sequences, FiniteSets, TLC

VARIABLES
    \* ---- cumulative series builder, called directly on a day-count map
    day_counts,            \* the argument: date -> count
    cumulative_data,       \* result of generate_cumulative_data
    cumulative_history,    \* result of generate_cumulative_history
    cum_called,            \* which of the two builders have been called
    \* ---- calculate_stargazers_history.py, main
    all_stargazers_info,   \* list of lists of <<username, day>>, one per repository kept
    repo_histories,        \* output_data["<repo>_stars_history"], by repository index
    total_stars_history,   \* output_data["total_stars_history"]
    star_repo,             \* repositories the loop of main has gone through
    star_done,             \* generate_total_history has run
    \* ---- calculate_contributor_history.py, ContributorHistory and main
    code_contributors,       \* {author: first_contribution_date}
    community_contributors,
    autoware_contributors,
    history_json,            \* the result of to_json, as written to the output file
    hist_pc,                 \* where main is: "load", "merged", "written" or "raised"
    hist_loads,              \* calls of load_contributors_from_file so far
    observed_code,           \* history: the <<author, datetime>> pairs at or after the
    observed_community,      \* start date in the files loaded into each map so far
    hist_calls,              \* history: <<map, file>> of each load, kept by the
                             \* Call* actions only
    \* ---- calculate_rankings.py, RankingCalculator
    code_contributions,      \* {author: {month_key: count}}, in insertion order
    community_contributions,
    review_contributions,
    rankings,                \* the result of generate_rankings
    rank_pc,                 \* "process", then "generated", or "raised"
    rank_files,              \* calls of the process_* methods so far
    rank_calls,              \* history: <<method, file>> of each call, kept by the
                             \* Call* actions only
    \* ---- convert_contributors_to_csv.py, main
    csv_json,                \* json_data, the loaded contributors_history.json
    csv_rows,                \* the rows written after the header
    csv_pc,                  \* "load", "loaded" or "written"
    \* ---- fetch_repositories.py, main
    sel_repos,               \* repos, the list fetch_all_repositories returned
    sel_result,              \* result of filter_and_rank_repositories
    sel_pc,                  \* "fetch", "fetched" or "written"
    \* ---- get_stargazers.py, get_contributors.py, fetch_repositories.py: a run
    \* ---- of main against the API
    upstream,                \* records of each collection at the API, by target
    cache,                   \* the cache file of each target: its edges, or NoFile
    fetch_tool,              \* which script runs
    fetch_token,             \* self.token of the client
    fetch_use_cache,         \* args.use_cache
    fetch_pc,                \* "main", "target", "query", "done", "exit1", "crashed"
    fetch_target,            \* index of the collection being fetched
    fetch_kind,              \* the query in flight: "first", "page" or "org"
    fetch_cursor,            \* cursor of get_* (0 is None)
    fetch_edges,             \* all_edges
    fetch_made,              \* HTTP attempts made by the current execute_query call
    fetch_sent,              \* history: an HTTP request was sent in this run
    fetch_ended,             \* history: how the last execute_query call ended
    fetch_returned,          \* history: the last return of get_*: <<target, start, edges>>
    fetch_runs               \* runs of main started

cumVars == <<day_counts, cumulative_data, cumulative_history, cum_called>>

starVars == <<all_stargazers_info, repo_histories, total_stars_history,
              star_repo, star_done>>

histVars == <<code_contributors, community_contributors, autoware_contributors,
              history_json, hist_pc, hist_loads, observed_code, observed_community,
              hist_calls>>

rankVars == <<code_contributions, community_contributions, review_contributions,
              rankings, rank_pc, rank_files, rank_calls>>

csvVars == <<csv_json, csv_rows, csv_pc>>

\* The tools around the aggregation scripts: the converter and the fetch tools.
selVars == <<sel_repos, sel_result, sel_pc>>

fetchVars == <<upstream, cache, fetch_tool, fetch_token, fetch_use_cache, fetch_pc,
               fetch_target,
               fetch_kind, fetch_cursor, fetch_edges, fetch_made, fetch_sent,
               fetch_ended, fetch_returned, fetch_runs>>

toolVars == <<csvVars, selVars, fetchVars>>

vars == <<cumVars, starVars, histVars, rankVars, toolVars>>

\* The variables of the other subsystems.
notCum == <<starVars, histVars, rankVars, toolVars>>

notStars == <<cumVars, histVars, rankVars, toolVars>>

notHist == <<cumVars, starVars, rankVars, toolVars>>

notRank == <<cumVars, starVars, histVars, toolVars>>

notCsv == <<cumVars, starVars, histVars, rankVars, selVars, fetchVars>>

notSel == <<cumVars, starVars, histVars, rankVars, csvVars, fetchVars>>

notFetch == <<cumVars, starVars, histVars, rankVars, csvVars, selVars>>

\* A subsystem that is not running: its variables as constructed.
CumIdle ==
    /\ day_counts = <<>>
    /\ cumulative_data = <<>>
    /\ cumulative_history = <<>>
    /\ cum_called = {}

StarIdle ==
    /\ all_stargazers_info = <<>>
    /\ repo_histories = <<>>
    /\ total_stars_history = <<>>
    /\ star_repo = 0
    /\ star_done = FALSE

HistIdle ==
    /\ code_contributors = <<>>
    /\ community_contributors = <<>>
    /\ autoware_contributors = <<>>
    /\ history_json = [autoware_code_contributors |-> <<>>,
                       autoware_community_contributors |-> <<>>,
                       autoware_contributors |-> <<>>]
    /\ hist_pc = "load"
    /\ hist_loads = 0
    /\ observed_code = {}
    /\ observed_community = {}
    /\ hist_calls = <<>>

RankIdle ==
    /\ code_contributions = <<>>
    /\ community_contributions = <<>>
    /\ review_contributions = <<>>
    /\ rankings = [monthly |-> <<>>, yearly |-> <<>>, last_updated |-> <<>>]
    /\ rank_pc = "process"
    /\ rank_files = 0
    /\ rank_calls = <<>>

CsvIdle ==
    /\ csv_json = <<>>
    /\ csv_rows = <<>>
    /\ csv_pc = "load"

SelIdle ==
    /\ sel_repos = <<>>
    /\ sel_result = <<>>
    /\ sel_pc = "fetch"

\* The state of a fetch tool before main runs, but for the API and the script.
FetchAtStart ==
    /\ cache = <<>>
    /\ fetch_token = <<>>
    /\ fetch_use_cache = FALSE
    /\ fetch_pc = "main"
    /\ fetch_target = 0
    /\ fetch_kind = "first"
    /\ fetch_cursor = 0
    /\ fetch_edges = <<>>
    /\ fetch_made = 0
    /\ fetch_sent = FALSE
    /\ fetch_ended = <<>>
    /\ fetch_returned = <<>>
    /\ fetch_runs = 0

FetchIdle ==
    /\ upstream = <<>>
    /\ fetch_tool = "none"
    /\ FetchAtStart

ToolIdle == CsvIdle /\ SelIdle /\ FetchIdle

\* No aggregation script is running.
CoreIdle == CumIdle /\ StarIdle /\ HistIdle /\ RankIdle

-----------------------------------------------------------------------------
(* Python built-ins used by the scripts *)

\* a < b for str, tuple, date and datetime: lexicographic, by element.
RECURSIVE SeqLess(_, _)
SeqLess(a, b) ==
    IF a = <<>> THEN b # <<>>
    ELSE IF b = <<>> THEN FALSE
    ELSE IF a[1] # b[1] THEN a[1] < b[1]
    ELSE SeqLess(Tail(a), Tail(b))

\* Decimal digits of n, zero padded to two and to four places.
Pad2(n) == <<48 + ((n \div 10) % 10), 48 + (n % 10)>>

Pad4(n) == <<48 + ((n \div 1000) % 10), 48 + ((n \div 100) % 10)>> \o Pad2(n)

\* date.strftime('%Y-%m-%d')
StrftimeYmd(date) == Pad4(date[1]) \o <<45>> \o Pad2(date[2]) \o <<45>> \o Pad2(date[3])

\* date.strftime('%Y-%m')
StrftimeYm(date) == Pad4(date[1]) \o <<45>> \o Pad2(date[2])

\* datetime.date(d.year, d.month, d.day)
DateOf(d) == <<d[1], d[2], d[3]>>

\* sorted(keys) for a set of dates or strings: ascending, keys are distinct.
RECURSIVE SortedKeys(_)
SortedKeys(S) ==
    IF S = {} THEN <<>>
    ELSE LET m == CHOOSE x \in S : \A y \in S : ~SeqLess(y, x)
         IN  <<m>> \o SortedKeys(S \ {m})

-----------------------------------------------------------------------------
(* Cumulative series builder *)

\* The running total after the first i dates of all_dates (the loop variable
\* cumulative_count of both builders).
RECURSIVE RunningTotal(_, _, _)
RunningTotal(per_day, all_dates, i) ==
    IF i = 0 THEN 0
    ELSE RunningTotal(per_day, all_dates, i - 1) + per_day[all_dates[i]]

\* A builder that forgets to accumulate: each entry carries its own day's count.
generate_cumulative_data_NoSum(contributors_per_day) ==
    LET all_dates == SortedKeys(DOMAIN contributors_per_day)
    IN  [i \in 1..Len(all_dates) |->
            [date |-> StrftimeYmd(all_dates[i]),
             contributors_count |-> contributors_per_day[all_dates[i]]]]

\* ContributorHistory.generate_cumulative_data
generate_cumulative_data(contributors_per_day) ==
    LET all_dates == SortedKeys(DOMAIN contributors_per_day)
    IN  [i \in 1..Len(all_dates) |->
            [date |-> StrftimeYmd(all_dates[i]),
             contributors_count |->
                 RunningTotal(contributors_per_day, all_dates, i)]]

\* StarsHistoryAnalyzer.generate_cumulative_history
generate_cumulative_history(stars_per_day) ==
    LET all_dates == SortedKeys(DOMAIN stars_per_day)
    IN  [i \in 1..Len(all_dates) |->
            [date |-> StrftimeYmd(all_dates[i]),
             star_count |-> RunningTotal(stars_per_day, all_dates, i)]]

\* Bounds of the day-count maps the builders are called on.
MaxDayCount == 2

CumDays == {<<2022, 1, 1>>, <<2022, 1, 2>>, <<2022, 2, 1>>, <<2023, 1, 1>>}

\* Every day-count map over CumDays: a count_per_day result has no zero entry.
DayCountMaps == UNION {[D -> 1..MaxDayCount] : D \in SUBSET CumDays}

InitCumulative ==
    /\ day_counts \in DayCountMaps
    /\ cumulative_data = <<>>
    /\ cumulative_history = <<>>
    /\ cum_called = {}
    /\ StarIdle
    /\ HistIdle
    /\ RankIdle
    /\ ToolIdle

CallGenerateCumulativeData ==
    /\ "data" \notin cum_called
    /\ cumulative_data' = generate_cumulative_data(day_counts)
    /\ cum_called' = cum_called \cup {"data"}
    /\ UNCHANGED <<day_counts, cumulative_history>>
    /\ UNCHANGED notCum

CallGenerateCumulativeHistory ==
    /\ "history" \notin cum_called
    /\ cumulative_history' = generate_cumulative_history(day_counts)
    /\ cum_called' = cum_called \cup {"history"}
    /\ UNCHANGED <<day_counts, cumulative_data>>
    /\ UNCHANGED notCum

NextCumulative ==
    \/ CallGenerateCumulativeData
    \/ CallGenerateCumulativeHistory

SpecCumulative == InitCumulative /\ [][NextCumulative]_vars

-----------------------------------------------------------------------------
(* Claims *)

RECURSIVE SumOver(_, _)
SumOver(f, S) ==
    IF S = {} THEN 0
    ELSE LET x == CHOOSE y \in S : TRUE IN f[x] + SumOver(f, S \ {x})

NonDecreasing(counts) ==
    \A i \in 1..(Len(counts) - 1) : counts[i] <= counts[i + 1]

LastIsSum(counts, per_day) ==
    /\ Len(counts) = Cardinality(DOMAIN per_day)
    /\ Len(counts) > 0 => counts[Len(counts)] = SumOver(per_day, DOMAIN per_day)

\* C1: the series built by generate_cumulative_data and by
\* generate_cumulative_history from a day-count map has non-decreasing counts
\* from one entry to the next, and its last count is the sum of all the
\* per-day counts of the map.
C1_CumulativeMonotoneAndTotal ==
    /\ "data" \in cum_called =>
          LET counts == [i \in 1..Len(cumulative_data) |->
                            cumulative_data[i].contributors_count]
          IN  NonDecreasing(counts) /\ LastIsSum(counts, day_counts)
    /\ "history" \in cum_called =>
          LET counts == [i \in 1..Len(cumulative_history) |->
                            cumulative_history[i].star_count]
          IN  NonDecreasing(counts) /\ LastIsSum(counts, day_counts)

\* Both builders have run on a map of three days or more with unequal counts.
C1_Witness ==
    /\ cum_called = {"data", "history"}
    /\ Len(cumulative_data) >= 3
    /\ Len(cumulative_history) >= 3
    /\ \E d1, d2 \in DOMAIN day_counts : day_counts[d1] # day_counts[d2]
    /\ cumulative_data[Len(cumulative_data)].contributors_count > MaxDayCount


-----------------------------------------------------------------------------
(* JSON timestamps, as the cache files hold them *)

\* A JSON value in a timestamp place: null, a string in the format
\* '%Y-%m-%dT%H:%M:%SZ' (tag "iso", dt the instant it denotes) or any other
\* string (tag "text").
NoDatetime == <<0, 0, 0, 0>>

NullTs == [tag |-> "null", dt |-> NoDatetime]

TextTs == [tag |-> "text", dt |-> NoDatetime]

IsoTs(dt) == [tag |-> "iso", dt |-> dt]

\* bool(value) of a timestamp place: None is false, a non-empty string true.
TsTruthy(ts) == ts.tag # "null"

\* datetime.datetime.strptime(s, '%Y-%m-%dT%H:%M:%SZ') raises ValueError on a
\* string of another format.
StrptimeOk(ts) == ts.tag = "iso"

Strptime(ts) == ts.dt

\* Logins used in the inputs.
alice == <<97, 108, 105, 99, 101>>

bob == <<98, 111, 98>>

carol == <<99, 97, 114, 111, 108>>

-----------------------------------------------------------------------------
(* calculate_stargazers_history.py *)

\* StarsHistoryAnalyzer.load_stargazers_from_file: the list the file holds, []
\* for a missing file, invalid JSON or JSON that is not a list.
load_stargazers_from_file(file) ==
    IF file.kind = "list" THEN file.data ELSE <<>>

\* The body of the loop of extract_stargazers_info for one edge: the tuples it
\* appends (one or none).
ExtractStargazer(edge) ==
    LET starred_at == edge.starredAt
        username   == IF edge.has_node THEN edge.login ELSE <<>>
    IN  IF TsTruthy(starred_at) /\ username # <<>> /\ StrptimeOk(starred_at)
        THEN <<<<username, DateOf(Strptime(starred_at))>>>>
        ELSE <<>>

\* StarsHistoryAnalyzer.extract_stargazers_info
RECURSIVE extract_stargazers_info(_)
extract_stargazers_info(stargazers_data) ==
    IF stargazers_data = <<>> THEN <<>>
    ELSE ExtractStargazer(Head(stargazers_data))
             \o extract_stargazers_info(Tail(stargazers_data))

\* StarsHistoryAnalyzer.count_stars_per_day
count_stars_per_day(stargazers_info) ==
    [day \in {stargazers_info[i][2] : i \in 1..Len(stargazers_info)} |->
        Cardinality({i \in 1..Len(stargazers_info) : stargazers_info[i][2] = day})]

\* dict[key] = value
DictSet(dict, key, value) ==
    [k \in DOMAIN dict \cup {key} |-> IF k = key THEN value ELSE dict[k]]

\* One pass of the inner loop of generate_total_history that keeps whatever
\* date it saw last.
TrackEarliest_LastWins(unique_stargazers, username, day) ==
    DictSet(unique_stargazers, username, day)

\* One pass of the inner loop of generate_total_history (lines 100-103).
TrackEarliest(unique_stargazers, username, day) ==
    IF username \notin DOMAIN unique_stargazers
           \/ SeqLess(day, unique_stargazers[username])
    THEN DictSet(unique_stargazers, username, day)
    ELSE unique_stargazers

\* unique_stargazers after the first i tuples of one repository's list.
RECURSIVE TrackList(_, _, _)
TrackList(unique_stargazers, stargazers_info, i) ==
    IF i = 0 THEN unique_stargazers
    ELSE TrackEarliest(TrackList(unique_stargazers, stargazers_info, i - 1),
                       stargazers_info[i][1], stargazers_info[i][2])

\* unique_stargazers after the first r repositories (lines 97-103).
RECURSIVE UniqueStargazers(_, _)
UniqueStargazers(all_stargazers, r) ==
    IF r = 0 THEN <<>>
    ELSE TrackList(UniqueStargazers(all_stargazers, r - 1),
                   all_stargazers[r], Len(all_stargazers[r]))

\* StarsHistoryAnalyzer.generate_total_history
generate_total_history(all_stargazers) ==
    LET unique_stargazers == UniqueStargazers(all_stargazers, Len(all_stargazers))
        stars_per_day ==
            [day \in {unique_stargazers[u] : u \in DOMAIN unique_stargazers} |->
                Cardinality({u \in DOMAIN unique_stargazers :
                                 unique_stargazers[u] = day})]
        all_dates == SortedKeys(DOMAIN stars_per_day)
    IN  [i \in 1..Len(all_dates) |->
            [date |-> StrftimeYmd(all_dates[i]),
             star_count |-> RunningTotal(stars_per_day, all_dates, i)]]

\* The repositories main goes through: the head of its list of 25 names.
StarRepositories == <<"autoware", "autoware_core">>

\* Bound of the stargazer inputs: edges in one cache file.
MaxStarEdges == 2

StarInstants ==
    {<<2021, 12, 31, 86399>>, <<2023, 3, 15, 3600>>, <<2023, 4, 2, 0>>}

\* Edges with a login and a well-formed starredAt, and one edge for each way
\* of lacking one of the two.
StarEdges ==
    [starredAt : {IsoTs(dt) : dt \in StarInstants}, has_node : {TRUE},
     login : {alice, bob}]
        \cup [starredAt : {IsoTs(<<2023, 3, 15, 3600>>)}, has_node : {TRUE},
              login : {<<>>}]
        \cup [starredAt : {IsoTs(<<2023, 3, 15, 3600>>)}, has_node : {FALSE},
              login : {<<>>}]
        \cup [starredAt : {NullTs, TextTs}, has_node : {TRUE}, login : {alice}]

StarFiles ==
    [kind : {"missing", "invalid_json", "not_list"}, data : {<<>>}]
        \cup [kind : {"list"},
              data : UNION {[1..n -> StarEdges] : n \in 0..MaxStarEdges}]

InitStars == StarIdle /\ CumIdle /\ HistIdle /\ RankIdle /\ ToolIdle

\* One pass of the loop over the repositories in main (lines 166-185).
ProcessStarRepository(file) ==
    /\ star_repo < Len(StarRepositories)
    /\ ~star_done
    /\ star_repo' = star_repo + 1
    /\ LET stargazers_data == load_stargazers_from_file(file)
           stargazers_info == extract_stargazers_info(stargazers_data)
       IN  IF stargazers_data = <<>>
           THEN UNCHANGED <<all_stargazers_info, repo_histories>>
           ELSE /\ all_stargazers_info' = Append(all_stargazers_info, stargazers_info)
                /\ repo_histories' =
                       DictSet(repo_histories, star_repo + 1,
                               generate_cumulative_history(
                                   count_stars_per_day(stargazers_info)))
    /\ UNCHANGED <<total_stars_history, star_done>>
    /\ UNCHANGED notStars

\* main, lines 187-190: the total history once the loop is over.
GenerateTotalHistory ==
    /\ star_repo = Len(StarRepositories)
    /\ ~star_done
    /\ total_stars_history' = generate_total_history(all_stargazers_info)
    /\ star_done' = TRUE
    /\ UNCHANGED <<all_stargazers_info, repo_histories, star_repo>>
    /\ UNCHANGED notStars

NextStars ==
    \/ \E file \in StarFiles : ProcessStarRepository(file)
    \/ GenerateTotalHistory

SpecStars == InitStars /\ [][NextStars]_vars

\* The <<username, day>> tuples of all repositories.
StarTuples ==
    UNION {{all_stargazers_info[r][i] : i \in 1..Len(all_stargazers_info[r])} :
               r \in 1..Len(all_stargazers_info)}

StarUsernames == {t[1] : t \in StarTuples}

\* The earliest day on which username starred any repository.
EarliestStarDay(username) ==
    CHOOSE day \in {t[2] : t \in {x \in StarTuples : x[1] = username}} :
        \A t \in StarTuples : t[1] = username => ~SeqLess(t[2], day)

\* C2: generate_total_history counts each username exactly once, on the
\* earliest day it starred any repository: the total grows on a day by the
\* number of usernames whose earliest star is on that day (so a username with
\* star days D1 < D2 adds one on D1 and nothing on D2), the days listed are
\* exactly those earliest days, and the final total is the number of distinct
\* usernames.
C2_TotalCountsEachUserOnceAtEarliest ==
    star_done =>
        LET T == total_stars_history
            NewOn(date) ==
                Cardinality({u \in StarUsernames :
                                 StrftimeYmd(EarliestStarDay(u)) = date})
        IN  /\ {T[i].date : i \in 1..Len(T)}
                   = {StrftimeYmd(EarliestStarDay(u)) : u \in StarUsernames}
            /\ \A i \in 1..Len(T) :
                   T[i].star_count
                       = (IF i = 1 THEN 0 ELSE T[i - 1].star_count) + NewOn(T[i].date)
            /\ \A i \in 1..(Len(T) - 1) : SeqLess(T[i].date, T[i + 1].date)
            /\ (IF T = <<>> THEN 0 ELSE T[Len(T)].star_count)
                   = Cardinality(StarUsernames)

\* The total was built from two repositories: one username starred both, the
\* second one on a later day, and another username starred on that later day.
C2_Witness ==
    /\ star_done
    /\ Len(all_stargazers_info) = 2
    /\ \E t1 \in {all_stargazers_info[1][i] : i \in 1..Len(all_stargazers_info[1])},
          t2, t3 \in {all_stargazers_info[2][i] : i \in 1..Len(all_stargazers_info[2])} :
          /\ t1[1] = t2[1]
          /\ SeqLess(t1[2], t2[2])
          /\ t3[1] # t1[1]
          /\ t3[2] = t2[2]
    /\ Len(total_stars_history) = 2
    /\ total_stars_history[2].star_count = 2

-----------------------------------------------------------------------------
(* calculate_contributor_history.py *)

\* ContributorHistory.__init__: start_date is datetime(2022, 1, 1).
StartDate == <<2022, 1, 1, 0>>

\* Lines 46-47 with the comparison turned around: the latest date is kept.
FirstContribution_KeepLatest(contributor_dict, author, d) ==
    IF author \notin DOMAIN contributor_dict \/ SeqLess(contributor_dict[author], d)
    THEN DictSet(contributor_dict, author, d)
    ELSE contributor_dict

\* Lines 46-47 (and 62-63): record d as author's first contribution if it is
\* the first or an earlier one.
FirstContribution(contributor_dict, author, d) ==
    IF author \notin DOMAIN contributor_dict \/ SeqLess(d, contributor_dict[author])
    THEN DictSet(contributor_dict, author, d)
    ELSE contributor_dict

\* Lines 42-49 (and 58-65): one author with one createdAt.
TrackContribution(contributor_dict, author, created_at) ==
    IF author # <<>> /\ TsTruthy(created_at)
    THEN IF StrptimeOk(created_at) /\ ~SeqLess(Strptime(created_at), StartDate)
         THEN FirstContribution(contributor_dict, author, Strptime(created_at))
         ELSE contributor_dict
    ELSE contributor_dict

\* Lines 54-65: one comment edge.
TrackComment(contributor_dict, comment_edge) ==
    IF comment_edge.has_node /\ comment_edge.has_author
    THEN TrackContribution(contributor_dict, comment_edge.login,
                           comment_edge.createdAt)
    ELSE contributor_dict

\* Lines 52-65: the first i comment edges of a node.
RECURSIVE TrackComments(_, _, _)
TrackComments(contributor_dict, comment_edges, i) ==
    IF i = 0 THEN contributor_dict
    ELSE TrackComment(TrackComments(contributor_dict, comment_edges, i - 1),
                      comment_edges[i])

\* Lines 32-65: one edge.
TrackEdge(contributor_dict, edge) ==
    IF ~edge.is_edge THEN contributor_dict
    ELSE LET after_main ==
                 IF edge.has_author
                 THEN TrackContribution(contributor_dict, edge.login, edge.createdAt)
                 ELSE contributor_dict
         IN  IF edge.has_comments
             THEN TrackComments(after_main, edge.comments, Len(edge.comments))
             ELSE after_main

\* Lines 31-65: the first i edges.
RECURSIVE TrackEdges(_, _, _)
TrackEdges(contributor_dict, edges, i) ==
    IF i = 0 THEN contributor_dict
    ELSE TrackEdge(TrackEdges(contributor_dict, edges, i - 1), edges[i])

\* '"comments" in node and "edges" in node["comments"]' on a node whose
\* "comments" is null: the membership test on None raises TypeError, which no
\* except clause of the loaders and of the process_* methods names.
RaisesOnComments(edge) == edge.is_edge /\ edge.null_comments

\* The edges a loop over a file gets to: all of them, or those up to the first
\* one whose comments test raises.
EdgesReached(edges) ==
    IF \E i \in DOMAIN edges : RaisesOnComments(edges[i])
    THEN CHOOSE i \in DOMAIN edges :
             /\ RaisesOnComments(edges[i])
             /\ \A j \in 1..(i - 1) : ~RaisesOnComments(edges[j])
    ELSE Len(edges)

\* The call ends with the TypeError leaving the function.
CommentsRaise(file) ==
    /\ file.kind \in {"list", "data"}
    /\ \E i \in DOMAIN file.data : RaisesOnComments(file.data[i])

\* ContributorHistory.load_contributors_from_file: contributor_dict after the
\* call.  A file is missing, not JSON, a list of edges, an object whose "data"
\* is a list of edges, or JSON of another form.
load_contributors_from_file(file, contributor_dict) ==
    IF file.kind \in {"list", "data"}
    THEN TrackEdges(contributor_dict, file.data, EdgesReached(file.data))
    ELSE contributor_dict

\* merge_contributors without the comparison: an author of both maps keeps
\* the community date.
MergeContributor_BaseWins(merged, author, date) ==
    IF author \notin DOMAIN merged THEN DictSet(merged, author, date) ELSE merged

\* Lines 77-80: one author of code_contributors.
MergeContributor(merged, author, date) ==
    IF author \notin DOMAIN merged THEN DictSet(merged, author, date)
    ELSE IF SeqLess(date, merged[author]) THEN DictSet(merged, author, date)
    ELSE merged

\* Lines 76-80: the loop over the authors in todo (each author is visited once
\* and touches its own key only).
RECURSIVE MergeLoop(_, _, _)
MergeLoop(merged, other, todo) ==
    IF todo = {} THEN merged
    ELSE LET author == CHOOSE a \in todo : TRUE
         IN  MergeLoop(MergeContributor(merged, author, other[author]),
                       other, todo \ {author})

\* A merge that starts from an empty map and adds only the authors the base
\* does not have.
Merge_NewAuthorsOnly(base, other) ==
    [a \in DOMAIN other \ DOMAIN base |-> other[a]]

\* ContributorHistory.merge_contributors: autoware_contributors, from the copy
\* of base (community_contributors) and other (code_contributors).
Merge(base, other) == MergeLoop(base, other, DOMAIN other)

\* ContributorHistory.count_per_day
count_per_day(contributors) ==
    [day \in {DateOf(contributors[a]) : a \in DOMAIN contributors} |->
        Cardinality({a \in DOMAIN contributors : DateOf(contributors[a]) = day})]

\* ContributorHistory.to_json
to_json ==
    [autoware_code_contributors |->
         generate_cumulative_data(count_per_day(code_contributors)),
     autoware_community_contributors |->
         generate_cumulative_data(count_per_day(community_contributors)),
     autoware_contributors |->
         generate_cumulative_data(count_per_day(autoware_contributors))]

\* Bound of the contributor inputs: calls of load_contributors_from_file in
\* one run.
MaxLoads == 3

\* Edges in one file and comments on one node, in the inputs.
HistFileLengths == {0, 1}

HistCommentCounts == {0, 1}

HistLogins == {alice, bob}

\* Before the start date, at it, later that day, and on a later day.
HistInstants ==
    {<<2021, 12, 31, 86399>>, <<2022, 1, 1, 0>>, <<2022, 1, 1, 3600>>,
     <<2023, 3, 15, 0>>}

HistTimestamps == {IsoTs(dt) : dt \in HistInstants}

\* Comment edges with a login and a well-formed createdAt, and one for each
\* way of lacking one of the two.
HistCommentEdges ==
    [has_node : {TRUE}, has_author : {TRUE}, login : HistLogins,
     createdAt : HistTimestamps \ {IsoTs(<<2022, 1, 1, 3600>>)}]
        \cup [has_node : {TRUE}, has_author : {TRUE}, login : {alice},
              createdAt : {TextTs}]
        \cup [has_node : BOOLEAN, has_author : {FALSE}, login : {<<>>},
              createdAt : {IsoTs(<<2022, 1, 1, 0>>)}]

NoComments == [has_comments : {FALSE}, comments : {<<>>}]

SomeComments ==
    [has_comments : {TRUE},
     comments : UNION {[1..n -> HistCommentEdges] : n \in HistCommentCounts}]

\* Nodes with a login and a well-formed createdAt, and one for each way of
\* lacking one of the two.
HistNodes ==
    [is_edge : {TRUE}, has_author : {TRUE}, login : HistLogins,
     createdAt : HistTimestamps]
        \cup [is_edge : {TRUE}, has_author : {TRUE}, login : {alice},
              createdAt : {NullTs, TextTs}]
        \cup [is_edge : {TRUE}, has_author : BOOLEAN, login : {<<>>},
              createdAt : {IsoTs(<<2022, 1, 1, 0>>)}]

\* Every node with every comment list, and an edge that is no object with a
\* "node".
HistEdges ==
    {[is_edge |-> e.is_edge, has_author |-> e.has_author, login |-> e.login,
      createdAt |-> e.createdAt, has_comments |-> c.has_comments,
      null_comments |-> FALSE, comments |-> c.comments] :
        e \in HistNodes, c \in NoComments \cup SomeComments}
        \cup {[is_edge |-> FALSE, has_author |-> FALSE, login |-> <<>>,
               createdAt |-> NullTs, has_comments |-> FALSE,
               null_comments |-> FALSE, comments |-> <<>>]}

HistFiles ==
    [kind : {"missing", "invalid_json", "other"}, data : {<<>>}]
        \cup [kind : {"list", "data"},
              data : UNION {[1..n -> HistEdges] : n \in HistFileLengths}]

\* The <<author, datetime>> pairs of a file that carry a login and a
\* well-formed createdAt at or after the start date.
RecordsOfEdge(edge) ==
    IF ~edge.is_edge THEN {}
    ELSE (IF edge.has_author THEN {<<edge.login, edge.createdAt>>} ELSE {})
         \cup (IF edge.has_comments
               THEN {<<edge.comments[j].login, edge.comments[j].createdAt>> :
                        j \in {k \in 1..Len(edge.comments) :
                                   edge.comments[k].has_node
                                       /\ edge.comments[k].has_author}}
               ELSE {})

QualifyingPairs(file) ==
    IF file.kind \notin {"list", "data"} THEN {}
    ELSE {<<r[1], r[2].dt>> :
             r \in {x \in UNION {RecordsOfEdge(file.data[i]) :
                                     i \in 1..Len(file.data)} :
                        /\ x[1] # <<>>
                        /\ x[2].tag = "iso"
                        /\ ~SeqLess(x[2].dt, StartDate)}}

InitHistory == HistIdle /\ CumIdle /\ StarIdle /\ RankIdle /\ ToolIdle

\* main, lines 137-145: one issues or discussions file into community_contributors.
LoadCommunity(file) ==
    /\ hist_pc = "load"
    /\ hist_loads < MaxLoads
    /\ community_contributors' =
           load_contributors_from_file(file, community_contributors)
    /\ observed_community' = observed_community \cup QualifyingPairs(file)
    /\ hist_loads' = hist_loads + 1
    /\ hist_pc' = IF CommentsRaise(file) THEN "raised" ELSE hist_pc
    /\ UNCHANGED <<code_contributors, autoware_contributors, history_json,
                   observed_code, hist_calls>>
    /\ UNCHANGED notHist

\* main, lines 149-152: one pull-request file into code_contributors.
LoadCode(file) ==
    /\ hist_pc = "load"
    /\ hist_loads < MaxLoads
    /\ code_contributors' = load_contributors_from_file(file, code_contributors)
    /\ observed_code' = observed_code \cup QualifyingPairs(file)
    /\ hist_loads' = hist_loads + 1
    /\ hist_pc' = IF CommentsRaise(file) THEN "raised" ELSE hist_pc
    /\ UNCHANGED <<community_contributors, autoware_contributors, history_json,
                   observed_community, hist_calls>>
    /\ UNCHANGED notHist

\* main, line 156: merge_contributors.
MergeContributors ==
    /\ hist_pc = "load"
    /\ autoware_contributors' = Merge(community_contributors, code_contributors)
    /\ hist_pc' = "merged"
    /\ UNCHANGED <<code_contributors, community_contributors, history_json,
                   hist_loads, observed_code, observed_community, hist_calls>>
    /\ UNCHANGED notHist

\* main, lines 160-168: to_json and the write of the output file.
WriteHistory ==
    /\ hist_pc = "merged"
    /\ history_json' = to_json
    /\ hist_pc' = "written"
    /\ UNCHANGED <<code_contributors, community_contributors,
                   autoware_contributors, hist_loads, observed_code,
                   observed_community, hist_calls>>
    /\ UNCHANGED notHist

NextHistory ==
    \/ \E file \in HistFiles : LoadCommunity(file)
    \/ \E file \in HistFiles : LoadCode(file)
    \/ MergeContributors
    \/ WriteHistory

SpecHistory == InitHistory /\ [][NextHistory]_vars

\* The earlier of two datetimes.
Earlier(x, y) == IF SeqLess(y, x) THEN y ELSE x

\* The earliest datetime paired with author in a set of <<author, datetime>>.
EarliestOf(pairs, author) ==
    CHOOSE d \in {p[2] : p \in {q \in pairs : q[1] = author}} :
        \A p \in pairs : p[1] = author => ~SeqLess(p[2], d)

\* C3: after merge_contributors the merged map holds, for every author, the
\* earlier of the code date and the community date; an author of one map only
\* keeps that map's date; taking the code map as the base gives the same map;
\* and the map is a function of the set of records loaded, whatever the order
\* of the loads.
C3_MergeEarliestWins ==
    hist_pc \in {"merged", "written"} =>
        LET A == autoware_contributors
            C == code_contributors
            M == community_contributors
            seen == observed_code \cup observed_community
        IN  /\ DOMAIN A = DOMAIN C \cup DOMAIN M
            /\ \A a \in DOMAIN A :
                   A[a] = IF a \in DOMAIN C /\ a \in DOMAIN M
                              THEN Earlier(C[a], M[a])
                          ELSE IF a \in DOMAIN C THEN C[a] ELSE M[a]
            /\ Merge(C, M) = A
            /\ DOMAIN A = {p[1] : p \in seen}
            /\ \A a \in DOMAIN A : A[a] = EarliestOf(seen, a)

\* Merged: one author is in both maps with the earlier date in the code map,
\* another is in both with the earlier date in the community map.
C3_Witness ==
    /\ hist_pc = "merged"
    /\ \E a, b \in DOMAIN code_contributors \cap DOMAIN community_contributors :
          /\ SeqLess(code_contributors[a], community_contributors[a])
          /\ SeqLess(community_contributors[b], code_contributors[b])
          /\ autoware_contributors[a] = code_contributors[a]
          /\ autoware_contributors[b] = community_contributors[b]

\* C4: loading a file into a contributor map a second time leaves the map as
\* the first load left it, and merging a map with itself yields that map.
C4_LoadAndMergeIdempotent ==
    /\ \A file \in HistFiles :
           \A m \in {code_contributors, community_contributors} :
               LET once == load_contributors_from_file(file, m)
               IN  load_contributors_from_file(file, once) = once
    /\ \A m \in {code_contributors, community_contributors, autoware_contributors} :
           Merge(m, m) = m

\* A file with records of two authors has been loaded into the community map,
\* which loading it again leaves as it is, and a non-empty map has been merged.
C4_Witness ==
    /\ hist_pc = "merged"
    /\ autoware_contributors # <<>>
    /\ Merge(autoware_contributors, autoware_contributors) = autoware_contributors
    /\ \E file \in HistFiles :
          /\ Cardinality({p[1] : p \in QualifyingPairs(file)}) = 2
          /\ QualifyingPairs(file) \subseteq observed_community
          /\ load_contributors_from_file(file, community_contributors)
                 = community_contributors

\* A map holds, for exactly the authors seen, the earliest datetime seen.
HoldsEarliestSeen(contributor_dict, pairs) ==
    /\ DOMAIN contributor_dict = {p[1] : p \in pairs}
    /\ \A a \in DOMAIN contributor_dict :
           contributor_dict[a] = EarliestOf(pairs, a)

\* No author leaves the map and no date in it becomes later.
NeverLater(before, after) ==
    \A a \in DOMAIN before :
        a \in DOMAIN after /\ ~SeqLess(before[a], after[a])

\* C5: over any sequence of load_contributors_from_file calls on a map, an
\* author's entry is never removed and its date never becomes later, and
\* after every call the date is the earliest datetime at or after the start
\* date seen so far for that author.
C5_FirstOccurrenceMonotone ==
    [][/\ NeverLater(code_contributors, code_contributors')
       /\ NeverLater(community_contributors, community_contributors')
       /\ HoldsEarliestSeen(code_contributors', observed_code')
       /\ HoldsEarliestSeen(community_contributors', observed_community')]_vars

\* After several loads an author of the code map has been seen with a later
\* datetime than the one the map holds.
C5_Witness ==
    /\ hist_loads >= 2
    /\ \E p \in observed_code :
          /\ p[1] \in DOMAIN code_contributors
          /\ SeqLess(code_contributors[p[1]], p[2])
    /\ Cardinality(DOMAIN code_contributors) = 2

-----------------------------------------------------------------------------
(* calculate_rankings.py: RankingCalculator *)

BOT_USERS ==
    {<<100, 101, 112, 101, 110, 100, 97, 98, 111, 116, 91, 98, 111, 116, 93>>,
        \* "dependabot[bot]"
     <<103, 105, 116, 104, 117, 98, 45, 97, 99, 116, 105, 111, 110, 115, 91, 98, 111, 116, 93>>,
        \* "github-actions[bot]"
     <<103, 105, 116, 104, 117, 98, 45, 97, 99, 116, 105, 111, 110, 115>>,
        \* "github-actions"
     <<114, 101, 110, 111, 118, 97, 116, 101, 91, 98, 111, 116, 93>>,
        \* "renovate[bot]"
     <<99, 111, 100, 101, 99, 111, 118, 91, 98, 111, 116, 93>>,
        \* "codecov[bot]"
     <<99, 111, 100, 101, 99, 111, 118>>,
        \* "codecov"
     <<112, 114, 101, 45, 99, 111, 109, 109, 105, 116, 45, 99, 105, 91, 98, 111, 116, 93>>,
        \* "pre-commit-ci[bot]"
     <<109, 101, 114, 103, 105, 102, 121, 91, 98, 111, 116, 93>>,
        \* "mergify[bot]"
     <<115, 116, 97, 108, 101>>,
        \* "stale"
     <<97, 119, 102, 45, 97, 117, 116, 111, 119, 97, 114, 101, 45, 98, 111, 116>>}
        \* "awf-autoware-bot"

\* "[bot]"
BotSuffix == <<91, 98, 111, 116, 93>>

\* str.startswith and str.endswith
StartsWith(s, prefix) ==
    /\ Len(s) >= Len(prefix)
    /\ SubSeq(s, 1, Len(prefix)) = prefix

EndsWith(s, suffix) ==
    /\ Len(s) >= Len(suffix)
    /\ SubSeq(s, Len(s) - Len(suffix) + 1, Len(s)) = suffix

\* self.start_date of a RankingCalculator constructed without argument
RankStartDate == <<2022, 1, 1, 0>>

_get_month_key(date) == StrftimeYm(DateOf(date))

\* A bot test that knows the configured names only.
_is_bot_SetOnly(author) == author \in BOT_USERS

_is_bot(author) == author \in BOT_USERS \/ EndsWith(author, BotSuffix)

\* _parse_date returns None when strptime raises; callers test "if date".
_parse_date_ok(date_str) == StrptimeOk(date_str)

_parse_date(date_str) == Strptime(date_str)

\* contributions[author][month_key] += 1 on a defaultdict of defaultdict(int):
\* a new author is appended to the iteration order, a new month starts at 0.
IncrementMonth(months, month_key) ==
    IF month_key \in DOMAIN months
    THEN [months EXCEPT ![month_key] = @ + 1]
    ELSE DictSet(months, month_key, 1)

Increment(contributions, author, month_key) ==
    IF \E i \in DOMAIN contributions : contributions[i].author = author
    THEN [i \in DOMAIN contributions |->
             IF contributions[i].author = author
             THEN [contributions[i] EXCEPT !.months = IncrementMonth(@, month_key)]
             ELSE contributions[i]]
    ELSE Append(contributions,
                [author |-> author, months |-> IncrementMonth(<<>>, month_key)])

\* A counting tail without the date floor.
CountEvent_NoFloor(contributions, author, ts) ==
    IF _parse_date_ok(ts)
    THEN Increment(contributions, author, _get_month_key(_parse_date(ts)))
    ELSE contributions

\* The tail shared by every counting site:
\*     date = self._parse_date(ts)
\*     if date and date >= self.start_date: table[author][month_key] += 1
CountEvent(contributions, author, ts) ==
    IF _parse_date_ok(ts) /\ ~SeqLess(_parse_date(ts), RankStartDate)
    THEN Increment(contributions, author, _get_month_key(_parse_date(ts)))
    ELSE contributions

\* A loop body that counts a pull request by its createdAt, merged or not.
PrsEdge_UsesCreatedAt(contributions, edge) ==
    IF ~edge.is_edge THEN contributions
    ELSE IF ~edge.has_author THEN contributions
    ELSE IF edge.login = <<>> \/ _is_bot(edge.login) THEN contributions
    ELSE CountEvent(contributions, edge.login, edge.createdAt)

\* One iteration of the loop of process_prs.
PrsEdge(contributions, edge) ==
    IF ~edge.is_edge THEN contributions
    ELSE IF ~edge.has_author THEN contributions
    ELSE IF ~TsTruthy(edge.mergedAt) THEN contributions
    ELSE IF edge.login = <<>> \/ _is_bot(edge.login) THEN contributions
    ELSE CountEvent(contributions, edge.login, edge.mergedAt)

\* One iteration of a loop over comment edges (community: no self-exclusion).
\* A loop body that counts no comment.
CommunityComment_Ignored(contributions, comment_edge) == contributions

CommunityComment(contributions, comment_edge) ==
    IF ~comment_edge.has_node \/ ~comment_edge.has_author THEN contributions
    ELSE IF \/ comment_edge.login = <<>>
            \/ ~TsTruthy(comment_edge.createdAt)
            \/ _is_bot(comment_edge.login) THEN contributions
    ELSE CountEvent(contributions, comment_edge.login, comment_edge.createdAt)

RECURSIVE CommunityComments(_, _)
CommunityComments(contributions, comment_edges) ==
    IF comment_edges = <<>> THEN contributions
    ELSE CommunityComments(CommunityComment(contributions, Head(comment_edges)),
                           Tail(comment_edges))

\* One iteration of the loop of process_issues_discussions: the post, then
\* its comments.
IssueEdge(contributions, edge) ==
    IF ~edge.is_edge THEN contributions
    ELSE LET posted ==
                 IF /\ edge.has_author
                    /\ edge.login # <<>>
                    /\ TsTruthy(edge.createdAt)
                    /\ ~_is_bot(edge.login)
                 THEN CountEvent(contributions, edge.login, edge.createdAt)
                 ELSE contributions
         IN  IF edge.has_comments
             THEN CommunityComments(posted, edge.comments)
             ELSE posted

\* A review loop body that does not look at the pull request's author.
ReviewInteraction_CountsSelf(contributions, interaction_edge, pr_author) ==
    CommunityComment(contributions, interaction_edge)

\* One iteration of a loop over the comment edges or the review edges of a
\* pull request: as above, and the pull request's author is excluded.
ReviewInteraction(contributions, interaction_edge, pr_author) ==
    IF ~interaction_edge.has_node \/ ~interaction_edge.has_author THEN contributions
    ELSE IF \/ interaction_edge.login = <<>>
            \/ ~TsTruthy(interaction_edge.createdAt)
            \/ _is_bot(interaction_edge.login) THEN contributions
    ELSE IF interaction_edge.login = pr_author THEN contributions
    ELSE CountEvent(contributions, interaction_edge.login, interaction_edge.createdAt)

RECURSIVE ReviewInteractions(_, _, _)
ReviewInteractions(contributions, interaction_edges, pr_author) ==
    IF interaction_edges = <<>> THEN contributions
    ELSE ReviewInteractions(
             ReviewInteraction(contributions, Head(interaction_edges), pr_author),
             Tail(interaction_edges), pr_author)

\* pr_author is None when the node has no author object; None equals no login.
NoAuthor == <<0>>

\* One iteration of the loop of process_reviews: the comments, then the reviews.
ReviewEdge(contributions, edge) ==
    IF ~edge.is_edge THEN contributions
    ELSE IF RaisesOnComments(edge) THEN contributions
    ELSE LET pr_author == IF edge.has_author THEN edge.login ELSE NoAuthor
             commented ==
                 IF edge.has_comments
                 THEN ReviewInteractions(contributions, edge.comments, pr_author)
                 ELSE contributions
         IN  IF edge.has_reviews
             THEN ReviewInteractions(commented, edge.reviews, pr_author)
             ELSE commented

\* json.load and "edges = data if isinstance(data, list) else data.get('data', [])";
\* a missing file and invalid JSON are caught and leave no edges to process.
RankEdgesOf(file) ==
    IF file.kind \in {"list", "data"} THEN file.data ELSE <<>>

RECURSIVE PrsEdges(_, _)
PrsEdges(contributions, edges) ==
    IF edges = <<>> THEN contributions
    ELSE PrsEdges(PrsEdge(contributions, Head(edges)), Tail(edges))

RECURSIVE IssueEdges(_, _)
IssueEdges(contributions, edges) ==
    IF edges = <<>> THEN contributions
    ELSE IssueEdges(IssueEdge(contributions, Head(edges)), Tail(edges))

RECURSIVE ReviewEdges(_, _)
ReviewEdges(contributions, edges) ==
    IF edges = <<>> THEN contributions
    ELSE ReviewEdges(ReviewEdge(contributions, Head(edges)), Tail(edges))

\* process_prs, were a file that cannot be read to empty the table.
process_prs_StartsOver(file, contributions) ==
    IF file.kind \in {"list", "data"} THEN PrsEdges(contributions, file.data) ELSE <<>>

process_prs(file, contributions) == PrsEdges(contributions, RankEdgesOf(file))

\* The loops of process_issues_discussions and process_reviews end at the
\* first edge whose comments test raises: the post of that edge is counted
\* already, its comments and reviews are not.
process_issues_discussions(file, contributions) ==
    IssueEdges(contributions,
               SubSeq(RankEdgesOf(file), 1, EdgesReached(RankEdgesOf(file))))

process_reviews(file, contributions) ==
    ReviewEdges(contributions,
                SubSeq(RankEdgesOf(file), 1, EdgesReached(RankEdgesOf(file))))

\* dict.get(key, 0)
GetCount(months, key) == IF key \in DOMAIN months THEN months[key] ELSE 0

\* A sort key that forgets the author: equal counts keep their input order.
RankKeyLess_CountOnly(x, y) == x.count > y.count

\* key=lambda x: (-x["count"], x["author"]): x sorts strictly before y.
RankKeyLess(x, y) ==
    \/ x.count > y.count
    \/ x.count = y.count /\ SeqLess(x.author, y.author)

\* list.sort is stable: an item goes after every item that does not sort after it.
RankInsert(sorted, item) ==
    LET k == Cardinality({i \in DOMAIN sorted : ~RankKeyLess(item, sorted[i])})
    IN  SubSeq(sorted, 1, k) \o <<item>> \o SubSeq(sorted, k + 1, Len(sorted))

RECURSIVE RankSort(_)
RankSort(period_counts) ==
    IF period_counts = <<>> THEN <<>>
    ELSE RankInsert(RankSort(SubSeq(period_counts, 1, Len(period_counts) - 1)),
                    period_counts[Len(period_counts)])

\* Ranks that start at 0, as enumerate does without its second argument.
AddRank_FromZero(period_counts, limit) ==
    [i \in 1..(IF limit < Len(period_counts) THEN limit ELSE Len(period_counts)) |->
        [author |-> period_counts[i].author,
         count |-> period_counts[i].count,
         rank |-> i - 1]]

\*     for i, item in enumerate(period_counts[:limit], 1): item["rank"] = i
\*     return period_counts[:limit]
AddRank(period_counts, limit) ==
    [i \in 1..(IF limit < Len(period_counts) THEN limit ELSE Len(period_counts)) |->
        [author |-> period_counts[i].author,
         count |-> period_counts[i].count,
         rank |-> i]]

_generate_ranking(contributions, period_key, limit) ==
    LET counted == SelectSeq(contributions,
                             LAMBDA e : GetCount(e.months, period_key) > 0)
        period_counts == [i \in DOMAIN counted |->
                             [author |-> counted[i].author,
                              count |-> GetCount(counted[i].months, period_key)]]
    IN  AddRank(RankSort(period_counts), limit)

\* A year count that adds up every month of the author, whatever its year.
RECURSIVE YearCount_AllMonths(_, _, _)
YearCount_AllMonths(months, keys, year) ==
    IF keys = {} THEN 0
    ELSE LET k == CHOOSE x \in keys : TRUE
         IN  months[k] + YearCount_AllMonths(months, keys \ {k}, year)

\* year_counts[author] += count over the months of one author that start with year
RECURSIVE YearCount(_, _, _)
YearCount(months, keys, year) ==
    IF keys = {} THEN 0
    ELSE LET k == CHOOSE x \in keys : TRUE
         IN  (IF StartsWith(k, year) THEN months[k] ELSE 0)
             + YearCount(months, keys \ {k}, year)

_generate_yearly_ranking(contributions, year, limit) ==
    LET touched == SelectSeq(contributions,
                             LAMBDA e : \E k \in DOMAIN e.months : StartsWith(k, year))
        year_counts == [i \in DOMAIN touched |->
                           [author |-> touched[i].author,
                            count |-> YearCount(touched[i].months,
                                                DOMAIN touched[i].months, year)]]
        period_counts == SelectSeq(year_counts, LAMBDA e : e.count > 0)
    IN  AddRank(RankSort(period_counts), limit)

\* {item["author"]: item["rank"] for item in ranking}.get(author, default):
\* a later item with the same author replaces an earlier one.
RankLookup(ranking, author, default) ==
    LET at == {i \in DOMAIN ranking : ranking[i].author = author}
    IN  IF at = {} THEN default
        ELSE ranking[CHOOSE i \in at : \A j \in at : j <= i].rank

\* next((item["count"] for item in ranking if item["author"] == author), 0)
CountLookup(ranking, author) ==
    LET at == {i \in DOMAIN ranking : ranking[i].author = author}
    IN  IF at = {} THEN 0
        ELSE ranking[CHOOSE i \in at : \A j \in at : i <= j].count

\* A default rank that is the last place itself.
DefaultRank_LastPlace(ranking) == Len(ranking)

\* default rank for those not in a category (last place + 1)
DefaultRank(ranking) == Len(ranking) + 1

\* A sort key with the count ascending.
MvpKeyLess_CountAscending(x, y) ==
    \/ x.score < y.score
    \/ x.score = y.score /\ x.count < y.count
    \/ x.score = y.score /\ x.count = y.count /\ SeqLess(x.author, y.author)

\* key=lambda x: (x["score"], -x["count"], x["author"]): x sorts strictly before y.
MvpKeyLess(x, y) ==
    \/ x.score < y.score
    \/ x.score = y.score /\ x.count > y.count
    \/ x.score = y.score /\ x.count = y.count /\ SeqLess(x.author, y.author)

MvpInsert(sorted, item) ==
    LET k == Cardinality({i \in DOMAIN sorted : ~MvpKeyLess(item, sorted[i])})
    IN  SubSeq(sorted, 1, k) \o <<item>> \o SubSeq(sorted, k + 1, Len(sorted))

RECURSIVE MvpSort(_)
MvpSort(mvp_scores) ==
    IF mvp_scores = <<>> THEN <<>>
    ELSE MvpInsert(MvpSort(SubSeq(mvp_scores, 1, Len(mvp_scores) - 1)),
                   mvp_scores[Len(mvp_scores)])

AuthorsOf(ranking) == {ranking[i].author : i \in DOMAIN ranking}

\* iteration: the order in which "for author in all_authors" visits the logins;
\* a set of str iterates in an order that the interpreter's hash seed decides.
_calculate_mvp_ranking(code_ranking, community_ranking, review_ranking, limit, iteration) ==
    LET all_authors == AuthorsOf(code_ranking) \cup AuthorsOf(community_ranking)
                           \cup AuthorsOf(review_ranking)
        visited == SelectSeq(iteration, LAMBDA a : a \in all_authors)
        mvp_scores == [i \in DOMAIN visited |->
            [author |-> visited[i],
             score |-> RankLookup(code_ranking, visited[i], DefaultRank(code_ranking))
                       + RankLookup(community_ranking, visited[i],
                                    DefaultRank(community_ranking))
                       + RankLookup(review_ranking, visited[i],
                                    DefaultRank(review_ranking)),
             count |-> CountLookup(code_ranking, visited[i])
                       + CountLookup(community_ranking, visited[i])
                       + CountLookup(review_ranking, visited[i])]]
        sorted == MvpSort(mvp_scores)
    IN  [i \in 1..(IF limit < Len(sorted) THEN limit ELSE Len(sorted)) |->
            [author |-> sorted[i].author,
             score |-> sorted[i].score,
             count |-> sorted[i].count,
             rank |-> i]]

\* The limit that generate_rankings leaves at its default.  The source has
\* limit=50; the model has three human logins, so the default is scaled to
\* keep a ranking with more authors than the limit within reach.
DefaultLimit == 2

MonthKeysOf(contributions) ==
    UNION {DOMAIN contributions[i].months : i \in DOMAIN contributions}

\* month[:4]
YearOf(month) == SubSeq(month, 1, IF Len(month) < 4 THEN Len(month) ELSE 4)

generate_rankings(code, community, review, iteration, today) ==
    LET all_months == MonthKeysOf(code) \cup MonthKeysOf(community)
                          \cup MonthKeysOf(review)
        all_years == {YearOf(month) : month \in all_months}
        Monthly(month) ==
            LET code_ranking == _generate_ranking(code, month, DefaultLimit)
                community_ranking == _generate_ranking(community, month, DefaultLimit)
                review_ranking == _generate_ranking(review, month, DefaultLimit)
            IN  [code |-> code_ranking,
                 community |-> community_ranking,
                 review |-> review_ranking,
                 mvp |-> _calculate_mvp_ranking(code_ranking, community_ranking,
                                                review_ranking, DefaultLimit, iteration)]
        Yearly(year) ==
            LET code_ranking == _generate_yearly_ranking(code, year, DefaultLimit)
                community_ranking == _generate_yearly_ranking(community, year, DefaultLimit)
                review_ranking == _generate_yearly_ranking(review, year, DefaultLimit)
            IN  [code |-> code_ranking,
                 community |-> community_ranking,
                 review |-> review_ranking,
                 mvp |-> _calculate_mvp_ranking(code_ranking, community_ranking,
                                                review_ranking, DefaultLimit, iteration)]
    IN  [monthly |-> [month \in all_months |-> Monthly(month)],
         yearly |-> [year \in all_years |-> Yearly(year)],
         last_updated |-> StrftimeYmd(today)]

\* ---- the files given to the process_* methods

\* calls of process_prs, process_issues_discussions and process_reviews in a run
MaxRankFiles == 4

\* edges in one file
RankFileLengths == {0, 1}

\* "dependabot[bot]"
dependabot == <<100, 101, 112, 101, 110, 100, 97, 98, 111, 116, 91, 98, 111, 116, 93>>

RankLogins == {alice, bob, carol}

InMarch == <<2023, 3, 15, 43200>>

InApril == <<2023, 4, 2, 0>>

BeforeStart == <<2021, 12, 31, 86399>>

\* the first instant that self.start_date admits
AtStart == <<2022, 1, 1, 0>>

\* a comment edge or a review edge: {"node": {"author": {"login": ..}, "createdAt": ..}}
Interaction(login, created_at) ==
    [has_node |-> TRUE, has_author |-> TRUE, login |-> login, createdAt |-> created_at]

RankInteractions ==
    {Interaction(login, IsoTs(InMarch)) : login \in RankLogins \cup {dependabot}}
    \cup {Interaction(bob, ts) : ts \in {IsoTs(InApril), IsoTs(BeforeStart), TextTs, NullTs}}
    \cup {[has_node |-> has_node, has_author |-> FALSE, login |-> <<>>,
           createdAt |-> IsoTs(InMarch)] : has_node \in BOOLEAN}

\* an edge of a *_prs.json file
PullRequest(has_author, login, merged_at, comments, reviews) ==
    [is_edge |-> TRUE, has_author |-> has_author, login |-> login,
     createdAt |-> IsoTs(InMarch), mergedAt |-> merged_at,
     has_comments |-> TRUE, null_comments |-> FALSE, comments |-> comments,
     has_reviews |-> TRUE, reviews |-> reviews]

\* an edge of a *_issues.json or *_discussions.json file
Post(has_author, login, created_at, has_comments, comments) ==
    [is_edge |-> TRUE, has_author |-> has_author, login |-> login,
     createdAt |-> created_at, mergedAt |-> NullTs,
     has_comments |-> has_comments, null_comments |-> FALSE, comments |-> comments,
     has_reviews |-> FALSE, reviews |-> <<>>]

\* a list element that is not a dict or has no "node"
NotAnEdge ==
    [is_edge |-> FALSE, has_author |-> FALSE, login |-> <<>>,
     createdAt |-> NullTs, mergedAt |-> NullTs,
     has_comments |-> FALSE, null_comments |-> FALSE, comments |-> <<>>,
     has_reviews |-> FALSE, reviews |-> <<>>]

RankPrEdges ==
    {PullRequest(TRUE, login, IsoTs(InMarch), <<>>, <<>>) :
        login \in RankLogins \cup {dependabot, <<>>}}
    \cup {PullRequest(TRUE, login, IsoTs(InApril), <<>>, <<>>) : login \in {alice, bob}}
    \cup {PullRequest(TRUE, alice, ts, <<>>, <<>>) :
             ts \in {NullTs, TextTs, IsoTs(BeforeStart), IsoTs(AtStart)}}
    \cup {PullRequest(FALSE, <<>>, IsoTs(InMarch), <<>>, <<>>)}
    \cup {PullRequest(TRUE, alice, IsoTs(InMarch), <<c>>, <<>>) : c \in RankInteractions}
    \cup {PullRequest(TRUE, alice, IsoTs(InMarch), <<>>, <<r>>) : r \in RankInteractions}
    \cup {PullRequest(TRUE, alice, IsoTs(InMarch),
                      <<Interaction(bob, IsoTs(InMarch))>>,
                      <<Interaction(carol, IsoTs(InMarch))>>)}
    \cup {PullRequest(FALSE, <<>>, NullTs, <<Interaction(alice, IsoTs(InMarch))>>, <<>>)}
    \cup {NotAnEdge}

RankIssueEdges ==
    {Post(TRUE, login, IsoTs(InMarch), TRUE, <<>>) :
        login \in RankLogins \cup {dependabot, <<>>}}
    \cup {Post(TRUE, carol, IsoTs(InApril), FALSE, <<>>)}
    \cup {Post(TRUE, alice, ts, TRUE, <<>>) :
             ts \in {NullTs, TextTs, IsoTs(BeforeStart), IsoTs(AtStart)}}
    \cup {Post(TRUE, alice, IsoTs(InMarch), TRUE, <<c>>) : c \in RankInteractions}
    \cup {Post(FALSE, <<>>, IsoTs(InMarch), TRUE, <<Interaction(carol, IsoTs(InMarch))>>)}
    \cup {NotAnEdge}

RankFilesOf(edges) ==
    [kind : {"missing", "invalid_json", "other"}, data : {<<>>}]
    \cup [kind : {"list", "data"},
          data : UNION {[1..n -> edges] : n \in RankFileLengths}]

RankPrFiles == RankFilesOf(RankPrEdges)

RankIssueFiles == RankFilesOf(RankIssueEdges)

\* the orders in which a set of these logins can iterate
IterationOrders(logins) ==
    {order \in [1..Cardinality(logins) -> logins] :
        \A i, j \in DOMAIN order : i # j => order[i] # order[j]}

TableLogins(contributions) == {contributions[i].author : i \in DOMAIN contributions}

\* the dates on which datetime.now() is read
Todays == {<<2026, 11, 2>>}

InitRankings == RankIdle /\ CumIdle /\ StarIdle /\ HistIdle /\ ToolIdle

ProcessPrs(file) ==
    /\ rank_pc = "process"
    /\ rank_files < MaxRankFiles
    /\ code_contributions' = process_prs(file, code_contributions)
    /\ rank_files' = rank_files + 1
    /\ UNCHANGED <<community_contributions, review_contributions, rankings, rank_pc,
                   rank_calls>>
    /\ UNCHANGED notRank

ProcessReviews(file) ==
    /\ rank_pc = "process"
    /\ rank_files < MaxRankFiles
    /\ review_contributions' = process_reviews(file, review_contributions)
    /\ rank_pc' = IF CommentsRaise(file) THEN "raised" ELSE rank_pc
    /\ rank_files' = rank_files + 1
    /\ UNCHANGED <<code_contributions, community_contributions, rankings, rank_calls>>
    /\ UNCHANGED notRank

ProcessIssuesDiscussions(file) ==
    /\ rank_pc = "process"
    /\ rank_files < MaxRankFiles
    /\ community_contributions' = process_issues_discussions(file, community_contributions)
    /\ rank_pc' = IF CommentsRaise(file) THEN "raised" ELSE rank_pc
    /\ rank_files' = rank_files + 1
    /\ UNCHANGED <<code_contributions, review_contributions, rankings, rank_calls>>
    /\ UNCHANGED notRank

GenerateRankings ==
    /\ rank_pc = "process"
    /\ \E iteration \in IterationOrders(TableLogins(code_contributions)
                                           \cup TableLogins(community_contributions)
                                           \cup TableLogins(review_contributions)),
          today \in Todays :
          rankings' = generate_rankings(code_contributions, community_contributions,
                                        review_contributions, iteration, today)
    /\ rank_pc' = "generated"
    /\ UNCHANGED <<code_contributions, community_contributions, review_contributions,
                   rank_files, rank_calls>>
    /\ UNCHANGED notRank

NextRankings ==
    \/ \E file \in RankPrFiles : ProcessPrs(file)
    \/ \E file \in RankPrFiles : ProcessReviews(file)
    \/ \E file \in RankIssueFiles : ProcessIssuesDiscussions(file)
    \/ GenerateRankings

SpecRankings == InitRankings /\ [][NextRankings]_vars

-----------------------------------------------------------------------------
(* Claims about the rankings *)

Categories == {"code", "community", "review"}

TableOf(category) ==
    CASE category = "code" -> code_contributions
      [] category = "community" -> community_contributions
      [] category = "review" -> review_contributions

\* The months of one author in a table; no months for an author not in it.
MonthsOfAuthor(contributions, author) ==
    IF \E i \in DOMAIN contributions : contributions[i].author = author
    THEN contributions[CHOOSE i \in DOMAIN contributions :
                           contributions[i].author = author].months
    ELSE <<>>

\* The raw count of an author in a table for a month or for a year.
CountInMonth(contributions, author, month) ==
    LET months == MonthsOfAuthor(contributions, author)
    IN  IF month \in DOMAIN months THEN months[month] ELSE 0

CountInYear(contributions, author, year) ==
    LET months == MonthsOfAuthor(contributions, author)
    IN  SumOver(months, {k \in DOMAIN months : SubSeq(k, 1, 4) = year})

\* Every per-category ranking of the output, with the table and the period
\* it was generated from.
RankingViews ==
    {[ranking |-> rankings.monthly[month][category], table |-> TableOf(category),
      period |-> month, yearly |-> FALSE] :
        month \in DOMAIN rankings.monthly, category \in Categories}
    \cup {[ranking |-> rankings.yearly[year][category], table |-> TableOf(category),
           period |-> year, yearly |-> TRUE] :
             year \in DOMAIN rankings.yearly, category \in Categories}

ViewCount(view, author) ==
    IF view.yearly THEN CountInYear(view.table, author, view.period)
    ELSE CountInMonth(view.table, author, view.period)

\* The authors that have contributions in the view's period.
ViewAuthors(view) ==
    {author \in TableLogins(view.table) : ViewCount(view, author) > 0}

\* The view's ranking generated again from a table.
ViewGenerate(view, contributions) ==
    IF view.yearly THEN _generate_yearly_ranking(contributions, view.period, DefaultLimit)
    ELSE _generate_ranking(contributions, view.period, DefaultLimit)

\* A table with its authors inserted in another order.
Reordered(contributions, order) ==
    [i \in DOMAIN contributions |-> contributions[order[i]]]

\* count descending, then author ascending, with no two entries equal
StrictlyRanked(ranking) ==
    \A i \in 1..(Len(ranking) - 1) :
        \/ ranking[i].count > ranking[i + 1].count
        \/ /\ ranking[i].count = ranking[i + 1].count
           /\ SeqLess(ranking[i].author, ranking[i + 1].author)

\* C6: once generate_rankings has run, every monthly and yearly category ranking
\* is ordered by count descending and, for equal counts, by author ascending,
\* and it is the list that the same counts give for every other order in
\* which the authors could have entered the table.
C6_RankingDeterminedByCounts ==
    rank_pc = "generated" =>
        \A view \in RankingViews :
            /\ StrictlyRanked(view.ranking)
            /\ \A order \in IterationOrders(DOMAIN view.table) :
                   ViewGenerate(view, Reordered(view.table, order)) = view.ranking

\* Two authors tie in a month's code ranking and alice ranks above bob although
\* bob entered the table first.
C6_Witness ==
    /\ rank_pc = "generated"
    /\ \E month \in DOMAIN rankings.monthly :
           LET ranking == rankings.monthly[month].code
           IN  /\ Len(ranking) >= 2
               /\ ranking[1].author = alice
               /\ ranking[2].author = bob
               /\ ranking[1].count = ranking[2].count
               /\ \E i, j \in DOMAIN code_contributions :
                      /\ i < j
                      /\ code_contributions[i].author = bob
                      /\ code_contributions[j].author = alice

\* The authors that stand before an author in the full order of a view.
AheadOf(view, author) ==
    {other \in ViewAuthors(view) :
        \/ ViewCount(view, other) > ViewCount(view, author)
        \/ /\ ViewCount(view, other) = ViewCount(view, author)
           /\ SeqLess(other, author)}

\* C7: every monthly and yearly category ranking has at most limit entries, it
\* is as long as the limit allows, the entry at position i has rank i, and that
\* rank is the author's 1-based position in the full order of the period's
\* authors: the number of authors ahead, plus one.
C7_RankIsPositionBeforeTruncation ==
    rank_pc = "generated" =>
        \A view \in RankingViews :
            /\ Len(view.ranking) <= DefaultLimit
            /\ Len(view.ranking) = IF Cardinality(ViewAuthors(view)) < DefaultLimit
                                   THEN Cardinality(ViewAuthors(view))
                                   ELSE DefaultLimit
            /\ \A i \in DOMAIN view.ranking :
                   /\ view.ranking[i].rank = i
                   /\ view.ranking[i].author \in ViewAuthors(view)
                   /\ view.ranking[i].count = ViewCount(view, view.ranking[i].author)
                   /\ view.ranking[i].rank
                          = Cardinality(AheadOf(view, view.ranking[i].author)) + 1

\* A period has more authors than the limit and its ranking is cut to the limit.
C7_Witness ==
    /\ rank_pc = "generated"
    /\ \E view \in RankingViews :
           /\ Cardinality(ViewAuthors(view)) > DefaultLimit
           /\ Len(view.ranking) = DefaultLimit
           /\ DefaultLimit > 0

\* Every period of the output, with its four rankings.
PeriodRankings ==
    {rankings.monthly[month] : month \in DOMAIN rankings.monthly}
    \cup {rankings.yearly[year] : year \in DOMAIN rankings.yearly}

\* The rank of an author in a ranking, or the length of the ranking plus one.
RankOrSynthetic(ranking, author) ==
    IF \E i \in DOMAIN ranking : ranking[i].author = author
    THEN ranking[CHOOSE i \in DOMAIN ranking : ranking[i].author = author].rank
    ELSE Len(ranking) + 1

ExpectedScore(period, author) ==
    RankOrSynthetic(period.code, author)
    + RankOrSynthetic(period.community, author)
    + RankOrSynthetic(period.review, author)

\* C8: the score of every MVP entry is the sum of the author's ranks in the
\* period's code, community and review rankings, an author absent from a
\* ranking taking that ranking's length plus one; so each of the three terms
\* is at least 1 and at most the length plus one.
C8_MvpScoreIsSumOfRanks ==
    rank_pc = "generated" =>
        \A period \in PeriodRankings :
            \A i \in DOMAIN period.mvp :
                /\ period.mvp[i].score = ExpectedScore(period, period.mvp[i].author)
                /\ period.mvp[i].score >= 3
                /\ period.mvp[i].score
                       <= Len(period.code) + Len(period.community) + Len(period.review) + 3

\* An MVP entry of an author who is absent from a ranking that is not empty.
C8_Witness ==
    /\ rank_pc = "generated"
    /\ \E period \in PeriodRankings :
           \E i \in DOMAIN period.mvp :
               /\ period.mvp[i].author \in AuthorsOf(period.code)
               /\ period.mvp[i].author \notin AuthorsOf(period.review)
               /\ Len(period.review) >= 1
               /\ period.mvp[i].score >= 4

\* The authors of a period: those in any of its three category rankings.
PeriodAuthors(period) ==
    AuthorsOf(period.code) \cup AuthorsOf(period.community) \cup AuthorsOf(period.review)

\* score ascending, then count descending, then author ascending
MvpBefore(x, y) ==
    \/ x.score < y.score
    \/ x.score = y.score /\ x.count > y.count
    \/ x.score = y.score /\ x.count = y.count /\ SeqLess(x.author, y.author)

\* The count of an author in a ranking, 0 for an author who is not in it.
CountOrZero(ranking, author) ==
    IF \E i \in DOMAIN ranking : ranking[i].author = author
    THEN ranking[CHOOSE i \in DOMAIN ranking : ranking[i].author = author].count
    ELSE 0

\* What an author of the period is sorted by.
MvpStanding(period, author) ==
    [author |-> author,
     score |-> ExpectedScore(period, author),
     count |-> CountOrZero(period.code, author)
               + CountOrZero(period.community, author)
               + CountOrZero(period.review, author)]

\* C9: every MVP ranking is in the order of score ascending, then composite
\* count descending, then author ascending; the entry at position i has rank
\* i; the list has at most limit entries and is as long as the limit allows;
\* and an author of the period who is left out stands after the last entry.
C9_MvpOrderedRankedAndTruncated ==
    rank_pc = "generated" =>
        \A period \in PeriodRankings :
            /\ \A i \in 1..(Len(period.mvp) - 1) :
                   MvpBefore(period.mvp[i], period.mvp[i + 1])
            /\ \A i \in DOMAIN period.mvp :
                   /\ period.mvp[i].rank = i
                   /\ period.mvp[i].author \in PeriodAuthors(period)
            /\ Len(period.mvp) <= DefaultLimit
            /\ Len(period.mvp) = IF Cardinality(PeriodAuthors(period)) < DefaultLimit
                                 THEN Cardinality(PeriodAuthors(period))
                                 ELSE DefaultLimit
            /\ \A author \in PeriodAuthors(period) \ AuthorsOf(period.mvp) :
                   \A i \in DOMAIN period.mvp :
                       MvpBefore(MvpStanding(period, period.mvp[i].author),
                                 MvpStanding(period, author))

\* Two MVP entries tie on the score and the larger count stands first, and an
\* author of the period is cut off by the limit.
C9_Witness ==
    /\ rank_pc = "generated"
    /\ \E period \in PeriodRankings :
           /\ Len(period.mvp) >= 2
           /\ period.mvp[1].score = period.mvp[2].score
           /\ period.mvp[1].count > period.mvp[2].count
           /\ Cardinality(PeriodAuthors(period)) > Len(period.mvp)

\* C10: in every monthly MVP ranking, the count of an entry is the sum of the
\* author's counts for that month in the code, community and review tables.
C10_MvpCountIsSumOfTableCounts ==
    rank_pc = "generated" =>
        \A month \in DOMAIN rankings.monthly :
            \A i \in DOMAIN rankings.monthly[month].mvp :
                LET entry == rankings.monthly[month].mvp[i]
                IN  entry.count
                        = CountInMonth(code_contributions, entry.author, month)
                          + CountInMonth(community_contributions, entry.author, month)
                          + CountInMonth(review_contributions, entry.author, month)

\* An MVP entry of an author who has contributions of some category in the
\* month but stands below the limit of that category's ranking: the entry's
\* count is less than the sum of the author's counts in the three tables.
C10_Witness ==
    /\ rank_pc = "generated"
    /\ \E month \in DOMAIN rankings.monthly :
           \E i \in DOMAIN rankings.monthly[month].mvp :
               LET entry == rankings.monthly[month].mvp[i]
               IN  /\ \E category \in Categories :
                          /\ CountInMonth(TableOf(category), entry.author, month) > 0
                          /\ entry.author
                                 \notin AuthorsOf(rankings.monthly[month][category])
                   /\ entry.count
                          < CountInMonth(code_contributions, entry.author, month)
                            + CountInMonth(community_contributions, entry.author, month)
                            + CountInMonth(review_contributions, entry.author, month)

\* The month keys of a table that belong to a year.
MonthsOfYear(contributions, year) ==
    {month \in MonthKeysOf(contributions) : SubSeq(month, 1, 4) = year}

RECURSIVE SumOfMonthlyCounts(_, _, _)
SumOfMonthlyCounts(contributions, author, months) ==
    IF months = {} THEN 0
    ELSE LET month == CHOOSE m \in months : TRUE
         IN  CountInMonth(contributions, author, month)
             + SumOfMonthlyCounts(contributions, author, months \ {month})

\* C11: the output has a yearly ranking for exactly the years of the tables'
\* month keys, and in every category the count of every yearly entry is the
\* sum of the author's counts in the table over the month keys of that year.
C11_YearlyCountIsSumOfMonthlyCounts ==
    rank_pc = "generated" =>
        /\ DOMAIN rankings.yearly
               = {SubSeq(month, 1, 4) : month \in DOMAIN rankings.monthly}
        /\ \A year \in DOMAIN rankings.yearly :
               \A category \in Categories :
                   \A i \in DOMAIN rankings.yearly[year][category] :
                       rankings.yearly[year][category][i].count
                           = SumOfMonthlyCounts(
                                 TableOf(category),
                                 rankings.yearly[year][category][i].author,
                                 MonthsOfYear(TableOf(category), year))

\* A yearly entry of an author who has counts in two months of that year and in
\* a month of another year, in the same category.
C11_Witness ==
    /\ rank_pc = "generated"
    /\ \E year \in DOMAIN rankings.yearly :
           \E category \in Categories :
               \E i \in DOMAIN rankings.yearly[year][category] :
                   LET author == rankings.yearly[year][category][i].author
                       months == DOMAIN MonthsOfAuthor(TableOf(category), author)
                   IN  /\ Cardinality(months \cap MonthsOfYear(TableOf(category), year)) >= 2
                       /\ months \ MonthsOfYear(TableOf(category), year) # {}

-----------------------------------------------------------------------------
(* RankingCalculator called on recorded files: a fresh calculator, a few     *)
(* calls of the process_* methods whose arguments are kept in rank_calls,    *)
(* then generate_rankings.                                                   *)

\* calls of the process_* methods in a recorded run
MaxCalls == 2

\* "stale", a configured bot name without the suffix
stale == <<115, 116, 97, 108, 101>>

\* "ci[bot]", a login with the suffix that is not a configured name
cibot == <<99, 105, 91, 98, 111, 116, 93>>

CallLogins == {alice, bob, dependabot, stale, cibot}

CallInteractions == {Interaction(login, IsoTs(InMarch)) : login \in CallLogins}

CallPrEdges ==
    {PullRequest(TRUE, login, IsoTs(InMarch), <<>>, <<>>) : login \in CallLogins}
    \cup {PullRequest(TRUE, alice, IsoTs(InMarch), <<c>>, <<>>) : c \in CallInteractions}
    \cup {PullRequest(TRUE, alice, IsoTs(InMarch), <<>>, <<r>>) : r \in CallInteractions}
    \cup {PullRequest(TRUE, bob, ts, <<>>, <<>>) :
             ts \in {NullTs, TextTs, IsoTs(BeforeStart), IsoTs(AtStart)}}
    \cup {PullRequest(FALSE, <<>>, IsoTs(InMarch), <<>>, <<>>), NotAnEdge}

CallIssueEdges ==
    {Post(TRUE, login, IsoTs(InMarch), TRUE, <<>>) : login \in CallLogins}
    \cup {Post(TRUE, alice, IsoTs(InMarch), TRUE, <<c>>) : c \in CallInteractions}
    \cup {Post(TRUE, bob, ts, TRUE, <<>>) :
             ts \in {NullTs, TextTs, IsoTs(BeforeStart), IsoTs(AtStart)}}
    \cup {Post(FALSE, <<>>, IsoTs(InMarch), TRUE, <<Interaction(bob, IsoTs(InMarch))>>),
          NotAnEdge}

CallFilesOf(edges) ==
    {[kind |-> "list", data |-> <<edge>>] : edge \in edges}
    \cup [kind : {"missing", "invalid_json"}, data : {<<>>}]

zoe == <<122, 111, 101>>

amy == <<97, 109, 121>>

\* one merged pull request by zoe (mergedAt 2023-03-15) and one unmerged by amy
ZoeAmyFile ==
    [kind |-> "list",
     data |-> <<PullRequest(TRUE, zoe, IsoTs(InMarch), <<>>, <<>>),
                PullRequest(TRUE, amy, NullTs, <<>>, <<>>)>>]

\* entries with "comments": null
NullCommentsPullRequest ==
    [PullRequest(TRUE, bob, IsoTs(InMarch), <<>>, <<Interaction(alice, IsoTs(InMarch))>>)
        EXCEPT !.has_comments = FALSE, !.null_comments = TRUE]

NullCommentsPost ==
    [Post(TRUE, bob, IsoTs(InMarch), FALSE, <<>>) EXCEPT !.null_comments = TRUE]

\* Files of three entries, the middle one malformed: a pull request of alice
\* commented by bob, the malformed entry, a pull request of bob commented by
\* alice; the same with posts.
MalformedPrFiles ==
    {[kind |-> "list",
      data |-> <<PullRequest(TRUE, alice, IsoTs(InMarch),
                             <<Interaction(bob, IsoTs(InMarch))>>, <<>>),
                 malformed,
                 PullRequest(TRUE, bob, IsoTs(InMarch),
                             <<Interaction(alice, IsoTs(InMarch))>>, <<>>)>>] :
        malformed \in {NotAnEdge,
                       PullRequest(FALSE, <<>>, IsoTs(InMarch), <<>>, <<>>),
                       PullRequest(TRUE, bob, TextTs, <<>>, <<>>),
                       NullCommentsPullRequest}}

MalformedIssueFiles ==
    {[kind |-> "list",
      data |-> <<Post(TRUE, alice, IsoTs(InMarch), TRUE,
                      <<Interaction(bob, IsoTs(InMarch))>>),
                 malformed,
                 Post(TRUE, bob, IsoTs(InMarch), TRUE,
                      <<Interaction(alice, IsoTs(InMarch))>>)>>] :
        malformed \in {NotAnEdge,
                       Post(FALSE, <<>>, IsoTs(InMarch), TRUE, <<>>),
                       Post(TRUE, bob, TextTs, TRUE, <<>>),
                       NullCommentsPost}}

CallPrFiles == CallFilesOf(CallPrEdges) \cup {ZoeAmyFile} \cup MalformedPrFiles

CallIssueFiles == CallFilesOf(CallIssueEdges) \cup MalformedIssueFiles

CallProcessPrs(file) ==
    /\ HistIdle
    /\ rank_pc = "process"
    /\ Len(rank_calls) < MaxCalls
    /\ code_contributions' = process_prs(file, code_contributions)
    /\ rank_calls' = Append(rank_calls, <<"process_prs", file>>)
    /\ rank_files' = rank_files + 1
    /\ UNCHANGED <<community_contributions, review_contributions, rankings, rank_pc>>
    /\ UNCHANGED notRank

CallProcessReviews(file) ==
    /\ HistIdle
    /\ rank_pc = "process"
    /\ Len(rank_calls) < MaxCalls
    /\ review_contributions' = process_reviews(file, review_contributions)
    /\ rank_calls' = Append(rank_calls, <<"process_reviews", file>>)
    /\ rank_pc' = IF CommentsRaise(file) THEN "raised" ELSE rank_pc
    /\ rank_files' = rank_files + 1
    /\ UNCHANGED <<code_contributions, community_contributions, rankings>>
    /\ UNCHANGED notRank

CallProcessIssuesDiscussions(file) ==
    /\ HistIdle
    /\ rank_pc = "process"
    /\ Len(rank_calls) < MaxCalls
    /\ community_contributions' = process_issues_discussions(file, community_contributions)
    /\ rank_calls' = Append(rank_calls, <<"process_issues_discussions", file>>)
    /\ rank_pc' = IF CommentsRaise(file) THEN "raised" ELSE rank_pc
    /\ rank_files' = rank_files + 1
    /\ UNCHANGED <<code_contributions, review_contributions, rankings>>
    /\ UNCHANGED notRank

CallGenerateRankings ==
    /\ GenerateRankings
    /\ rank_calls # <<>>

\* calculate_contributor_history.py on the same cache: the loads of main with
\* their arguments kept in hist_calls, then the merge and the write.
CallLoadCommunity(file) ==
    /\ RankIdle
    /\ hist_pc = "load"
    /\ Len(hist_calls) < MaxCalls
    /\ community_contributors' =
           load_contributors_from_file(file, community_contributors)
    /\ observed_community' = observed_community \cup QualifyingPairs(file)
    /\ hist_calls' = Append(hist_calls, <<"community", file>>)
    /\ hist_loads' = hist_loads + 1
    /\ hist_pc' = IF CommentsRaise(file) THEN "raised" ELSE hist_pc
    /\ UNCHANGED <<code_contributors, autoware_contributors, history_json,
                   observed_code>>
    /\ UNCHANGED notHist

CallLoadCode(file) ==
    /\ RankIdle
    /\ hist_pc = "load"
    /\ Len(hist_calls) < MaxCalls
    /\ code_contributors' = load_contributors_from_file(file, code_contributors)
    /\ observed_code' = observed_code \cup QualifyingPairs(file)
    /\ hist_calls' = Append(hist_calls, <<"code", file>>)
    /\ hist_loads' = hist_loads + 1
    /\ hist_pc' = IF CommentsRaise(file) THEN "raised" ELSE hist_pc
    /\ UNCHANGED <<community_contributors, autoware_contributors, history_json,
                   observed_community>>
    /\ UNCHANGED notHist

CallMergeContributors ==
    /\ MergeContributors
    /\ hist_calls # <<>>

CallWriteHistory ==
    /\ WriteHistory
    /\ hist_calls # <<>>

\* One of the two scripts runs on the cache.
NextCalls ==
    \/ \E file \in CallPrFiles : CallProcessPrs(file)
    \/ \E file \in CallPrFiles : CallProcessReviews(file)
    \/ \E file \in CallIssueFiles : CallProcessIssuesDiscussions(file)
    \/ CallGenerateRankings
    \/ \E file \in CallIssueFiles : CallLoadCommunity(file)
    \/ \E file \in CallPrFiles : CallLoadCode(file)
    \/ CallMergeContributors
    \/ CallWriteHistory

SpecCalls == InitRankings /\ [][NextCalls]_vars

\* A login that the bot rule names: a configured name, or one that ends in "[bot]".
IsBotLogin(login) ==
    \/ login \in BOT_USERS
    \/ Len(login) >= 5 /\ SubSeq(login, Len(login) - 4, Len(login)) = <<91, 98, 111, 116, 93>>

\* Every ranking list of the output.
AllRankingLists ==
    UNION {{period.code, period.community, period.review, period.mvp} :
              period \in PeriodRankings}

\* C12: in every state, no bot login is a key of the code, community or
\* review table, and no entry of a monthly or yearly code, community, review
\* or MVP ranking has a bot login as its author.
C12_NoBotInTablesOrRankings ==
    /\ \A category \in Categories :
           \A author \in TableLogins(TableOf(category)) : ~IsBotLogin(author)
    /\ \A ranking \in AllRankingLists :
           \A i \in DOMAIN ranking : ~IsBotLogin(ranking[i].author)

\* The logins offered by a file with a timestamp that would count: authors of
\* pull requests or posts, and authors of comments and reviews.
OfferedLogins(file) ==
    UNION {{file.data[i].login}
           \cup {file.data[i].comments[j].login : j \in DOMAIN file.data[i].comments}
           \cup {file.data[i].reviews[j].login : j \in DOMAIN file.data[i].reviews} :
               i \in DOMAIN file.data}

\* Two different methods were called, their files offered a configured bot name
\* without the suffix and a login with the suffix that is not configured, and
\* rankings with at least one month were generated.
C12_Witness ==
    /\ rank_pc = "generated"
    /\ Len(rank_calls) = 2
    /\ rank_calls[1][1] # rank_calls[2][1]
    /\ \E i, j \in DOMAIN rank_calls :
           /\ stale \in OfferedLogins(rank_calls[i][2])
           /\ cibot \in OfferedLogins(rank_calls[j][2])
    /\ DOMAIN rankings.monthly # {}

\* C13: no bot login is a key of the code, community or combined
\* first-occurrence map of the contributor history.
C13_NoBotInContributorMaps ==
    \A author \in DOMAIN code_contributors \cup DOMAIN community_contributors
                      \cup DOMAIN autoware_contributors :
        ~IsBotLogin(author)

\* The history was written with a bot login among the keys of the code map, and
\* the last contributors_count of the code series counts every key of the map.
C13_Witness ==
    /\ hist_pc = "written"
    /\ \E author \in DOMAIN code_contributors : IsBotLogin(author)
    /\ Len(history_json.autoware_code_contributors) >= 1
    /\ history_json.autoware_code_contributors[
           Len(history_json.autoware_code_contributors)].contributors_count
               = Cardinality(DOMAIN code_contributors)

\* "2023-03"
March == <<50, 48, 50, 51, 45, 48, 51>>

\* The entries of a file whose comments and reviews a method read: those
\* before an entry with a null comments list, where the method ends.
EntriesRead(file) ==
    {e \in 1..EdgesReached(file.data) : ~RaisesOnComments(file.data[e])}

\* The comments and the reviews a method has read so far: <<call, edge, index>>.
CommentSlots(method) ==
    UNION {UNION {{<<c, e, j>> : j \in DOMAIN rank_calls[c][2].data[e].comments} :
                     e \in EntriesRead(rank_calls[c][2])} :
              c \in {k \in DOMAIN rank_calls : rank_calls[k][1] = method}}

ReviewSlots(method) ==
    UNION {UNION {{<<c, e, j>> : j \in DOMAIN rank_calls[c][2].data[e].reviews} :
                     e \in EntriesRead(rank_calls[c][2])} :
              c \in {k \in DOMAIN rank_calls : rank_calls[k][1] = method}}

EdgeAt(slot) == rank_calls[slot[1]][2].data[slot[2]]

\* An interaction written by a person in March 2023.
MarchInteractionBy(interaction, author) ==
    /\ interaction.has_node
    /\ interaction.has_author
    /\ interaction.login = author
    /\ interaction.createdAt = IsoTs(InMarch)

\* The item of a slot was written by the author.
OwnItem(slot, author) == EdgeAt(slot).has_author /\ EdgeAt(slot).login = author

\* The March comments and reviews of a person given to process_reviews on pull
\* requests of somebody else.
ReviewsOfOthers(author) ==
    Cardinality({slot \in CommentSlots("process_reviews") :
                    /\ MarchInteractionBy(EdgeAt(slot).comments[slot[3]], author)
                    /\ ~OwnItem(slot, author)})
    + Cardinality({slot \in ReviewSlots("process_reviews") :
                      /\ MarchInteractionBy(EdgeAt(slot).reviews[slot[3]], author)
                      /\ ~OwnItem(slot, author)})

\* The March comments of a person given to process_issues_discussions on that
\* person's own posts.
CommentsOnOwnPosts(author) ==
    Cardinality({slot \in CommentSlots("process_issues_discussions") :
                    /\ MarchInteractionBy(EdgeAt(slot).comments[slot[3]], author)
                    /\ OwnItem(slot, author)})

\* C14: for every person, the March count of the review table is the number of
\* that person's March comments and reviews read on pull requests of others: a
\* comment or review on the person's own pull request adds nothing; and the
\* March count of the community table includes every comment of the person on
\* the person's own posts.
C14_SelfExcludedFromReviewOnly ==
    \A author \in {alice, bob} :
        /\ CountInMonth(review_contributions, author, March) = ReviewsOfOthers(author)
        /\ CountInMonth(community_contributions, author, March)
               >= CommentsOnOwnPosts(author)

\* process_reviews was given alice's comment on her own pull request and the
\* review table is empty; process_issues_discussions was given her comment on
\* her own post and her community count is 2, the post and the comment.
C14_Witness ==
    /\ Len(rank_calls) = 2
    /\ \E slot \in CommentSlots("process_reviews") :
           /\ MarchInteractionBy(EdgeAt(slot).comments[slot[3]], alice)
           /\ OwnItem(slot, alice)
    /\ review_contributions = <<>>
    /\ CommentsOnOwnPosts(alice) = 1
    /\ CountInMonth(community_contributions, alice, March) = 2

\* The pull requests given to process_prs so far: <<call, edge>>.
PrSlots ==
    UNION {{<<c, e>> : e \in DOMAIN rank_calls[c][2].data} :
              c \in {k \in DOMAIN rank_calls : rank_calls[k][1] = "process_prs"}}

\* The pull requests of a person given to process_prs that were merged in a
\* month at or after 2022-01-01.
MergedIn(author, year, month) ==
    Cardinality({slot \in PrSlots :
                    /\ EdgeAt(slot).is_edge
                    /\ EdgeAt(slot).has_author
                    /\ EdgeAt(slot).login = author
                    /\ EdgeAt(slot).mergedAt.tag = "iso"
                    /\ EdgeAt(slot).mergedAt.dt[1] = year
                    /\ EdgeAt(slot).mergedAt.dt[2] = month
                    /\ year >= 2022})

\* "2022-01"
January2022 == <<50, 48, 50, 50, 45, 48, 49>>

\* C15: for every person, the count of the code table in a month is the number
\* of that person's pull requests given to process_prs that were merged in
\* that month, so a pull request without mergedAt adds nothing; and after the
\* one file with a pull request of zoe merged on 2023-03-15 and an unmerged one
\* of amy, the only month is "2023-03" and its code ranking is zoe alone with
\* count 1 and rank 1.
C15_OneUnitPerMergedPullRequest ==
    /\ \A author \in {alice, bob, zoe, amy} :
           /\ CountInMonth(code_contributions, author, March)
                  = MergedIn(author, 2023, 3)
           /\ CountInMonth(code_contributions, author, January2022)
                  = MergedIn(author, 2022, 1)
           /\ DOMAIN MonthsOfAuthor(code_contributions, author)
                  \subseteq {March, January2022}
    /\ (rank_pc = "generated" /\ rank_calls = << <<"process_prs", ZoeAmyFile>> >>) =>
           /\ DOMAIN rankings.monthly = {March}
           /\ rankings.monthly[March].code = <<[author |-> zoe, count |-> 1, rank |-> 1]>>

\* Rankings were generated after process_prs was given the file of zoe and amy
\* and nothing else.
C15_Witness ==
    /\ rank_pc = "generated"
    /\ rank_calls = << <<"process_prs", ZoeAmyFile>> >>
    /\ March \in DOMAIN rankings.monthly

\* The edges of the files loaded into the code map so far: <<call, edge>>.
CodeLoadSlots ==
    UNION {{<<c, e>> : e \in DOMAIN hist_calls[c][2].data} :
              c \in {k \in DOMAIN hist_calls : hist_calls[k][1] = "code"}}

LoadedEdge(slot) == hist_calls[slot[1]][2].data[slot[2]]

\* All that the files loaded into the code map hold of a person is pull
\* requests that were never merged: no merged pull request, no comment.
OnlyUnmergedPullRequests(author) ==
    /\ \E slot \in CodeLoadSlots :
           LoadedEdge(slot).has_author /\ LoadedEdge(slot).login = author
    /\ \A slot \in CodeLoadSlots :
           /\ (LoadedEdge(slot).has_author /\ LoadedEdge(slot).login = author)
                  => LoadedEdge(slot).mergedAt.tag = "null"
           /\ \A j \in DOMAIN LoadedEdge(slot).comments :
                  LoadedEdge(slot).comments[j].login # author

\* C16: an author whose only activity in the pull-request files is authoring
\* pull requests that were never merged is not a key of the code map.
C16_UnmergedAuthorNotInCodeMap ==
    \A author \in DOMAIN code_contributors : ~OnlyUnmergedPullRequests(author)

\* The history was written after the code map took an author whose pull
\* requests were never merged, and the code series counts that author.
C16_Witness ==
    /\ hist_pc = "written"
    /\ \E author \in DOMAIN code_contributors : OnlyUnmergedPullRequests(author)
    /\ Cardinality(DOMAIN code_contributors) = 1
    /\ history_json.autoware_code_contributors[1].contributors_count = 1

\* The posts given to process_issues_discussions so far: <<call, edge>>.
PostSlots ==
    UNION {{<<c, e>> : e \in DOMAIN rank_calls[c][2].data} :
              c \in {k \in DOMAIN rank_calls :
                         rank_calls[k][1] = "process_issues_discussions"}}

\* The edges of the files loaded into the community map so far: <<call, edge>>.
CommunityLoadSlots ==
    UNION {{<<c, e>> : e \in DOMAIN hist_calls[c][2].data} :
              c \in {k \in DOMAIN hist_calls : hist_calls[k][1] = "community"}}

\* C17: no month key of a contribution table lies before "2022-01", the month
\* that begins at the start date, so no count holds an earlier event; every
\* date in the code, community and combined first-occurrence map is at or
\* after 2022-01-01 00:00:00; and an event at exactly that instant is kept: a
\* pull request merged then and a post created then are counted in "2022-01",
\* and a post created then gives its author that very date in the community map.
C17_StartDateFloor ==
    /\ \A category \in Categories :
           \A month \in MonthKeysOf(TableOf(category)) : ~SeqLess(month, January2022)
    /\ \A author \in DOMAIN code_contributors :
           ~SeqLess(code_contributors[author], <<2022, 1, 1, 0>>)
    /\ \A author \in DOMAIN community_contributors :
           ~SeqLess(community_contributors[author], <<2022, 1, 1, 0>>)
    /\ \A author \in DOMAIN autoware_contributors :
           ~SeqLess(autoware_contributors[author], <<2022, 1, 1, 0>>)
    /\ \A slot \in PrSlots :
           (/\ EdgeAt(slot).has_author
            /\ EdgeAt(slot).login = bob
            /\ EdgeAt(slot).mergedAt = IsoTs(<<2022, 1, 1, 0>>))
               => CountInMonth(code_contributions, bob, January2022) >= 1
    /\ \A slot \in PostSlots :
           (/\ EdgeAt(slot).has_author
            /\ EdgeAt(slot).login = bob
            /\ EdgeAt(slot).createdAt = IsoTs(<<2022, 1, 1, 0>>))
               => CountInMonth(community_contributions, bob, January2022) >= 1
    /\ \A slot \in CommunityLoadSlots :
           (/\ LoadedEdge(slot).has_author
            /\ LoadedEdge(slot).login = bob
            /\ LoadedEdge(slot).createdAt = IsoTs(<<2022, 1, 1, 0>>))
               => /\ bob \in DOMAIN community_contributors
                  /\ community_contributors[bob] = <<2022, 1, 1, 0>>

\* process_prs was given a pull request merged one second before the start date
\* and one merged at the start date, and the code table holds the second only.
C17_Witness ==
    /\ \E slot \in PrSlots : EdgeAt(slot).mergedAt = IsoTs(<<2021, 12, 31, 86399>>)
    /\ \E slot \in PrSlots : EdgeAt(slot).mergedAt = IsoTs(<<2022, 1, 1, 0>>)
    /\ MonthKeysOf(code_contributions) = {January2022}
    /\ CountInMonth(code_contributions, bob, January2022) = 1


\* An entry the loops are meant to skip: not an object with a "node", no
\* author object, a timestamp that does not parse, or a null comments list.
MalformedEntry(edge) ==
    \/ ~edge.is_edge
    \/ ~edge.has_author
    \/ edge.null_comments
    \/ edge.createdAt.tag = "text"
    \/ edge.mergedAt.tag = "text"

WellFormedEntry(edge) == ~MalformedEntry(edge)

\* The file without its malformed entries.
WithoutMalformed(file) ==
    [file EXCEPT !.data = SelectSeq(file.data, WellFormedEntry)]

\* The table of one process_* method after the first n recorded calls, had
\* every file been given without its malformed entries.
RECURSIVE TableWithoutMalformed(_, _)
TableWithoutMalformed(method, n) ==
    IF n = 0 THEN <<>>
    ELSE LET before == TableWithoutMalformed(method, n - 1)
             file == WithoutMalformed(rank_calls[n][2])
         IN  IF rank_calls[n][1] # method THEN before
             ELSE CASE method = "process_prs" -> process_prs(file, before)
                    [] method = "process_reviews" -> process_reviews(file, before)
                    [] method = "process_issues_discussions" ->
                           process_issues_discussions(file, before)

\* The same for a first-occurrence map of the contributor history.
RECURSIVE MapWithoutMalformed(_, _)
MapWithoutMalformed(map, n) ==
    IF n = 0 THEN <<>>
    ELSE LET before == MapWithoutMalformed(map, n - 1)
         IN  IF hist_calls[n][1] # map THEN before
             ELSE load_contributors_from_file(WithoutMalformed(hist_calls[n][2]), before)

\* Every count of the well-formed entries is in the table.
TableHolds(contributions, expected) ==
    \A i \in DOMAIN expected :
        \A month \in DOMAIN expected[i].months :
            CountInMonth(contributions, expected[i].author, month)
                >= expected[i].months[month]

\* Every author of the well-formed entries is in the map, no later than there.
MapHolds(contributor_dict, expected) ==
    \A author \in DOMAIN expected :
        /\ author \in DOMAIN contributor_dict
        /\ ~SeqLess(expected[author], contributor_dict[author])

\* C18: a malformed entry inside a file is skipped by itself: no exception
\* leaves process_prs, process_reviews, process_issues_discussions or
\* load_contributors_from_file, and every well-formed record of the file,
\* before and after the malformed one, is processed, so each table and each
\* first-occurrence map holds at least what the files hold without their
\* malformed entries.
C18_MalformedEntrySkippedByItself ==
    /\ rank_pc # "raised"
    /\ hist_pc # "raised"
    /\ TableHolds(code_contributions,
                  TableWithoutMalformed("process_prs", Len(rank_calls)))
    /\ TableHolds(review_contributions,
                  TableWithoutMalformed("process_reviews", Len(rank_calls)))
    /\ TableHolds(community_contributions,
                  TableWithoutMalformed("process_issues_discussions", Len(rank_calls)))
    /\ MapHolds(code_contributors, MapWithoutMalformed("code", Len(hist_calls)))
    /\ MapHolds(community_contributors,
                MapWithoutMalformed("community", Len(hist_calls)))

\* process_reviews was given a file whose second entry has a null comments
\* list: the TypeError left the method, and the review of the entry after it
\* is not in the review table.
C18_Witness ==
    /\ rank_pc = "raised"
    /\ \E n \in DOMAIN rank_calls :
           /\ rank_calls[n][1] = "process_reviews"
           /\ rank_calls[n][2] \in MalformedPrFiles
           /\ rank_calls[n][2].data[2].null_comments
    /\ CountInMonth(review_contributions, bob, March) = 1
    /\ CountInMonth(review_contributions, alice, March) = 0

\* The same statement for the entries the loops do skip: every malformed shape
\* other than a null comments list.
C18_SkippedWhereNoNullComments ==
    (/\ \A n \in DOMAIN rank_calls : ~CommentsRaise(rank_calls[n][2])
     /\ \A n \in DOMAIN hist_calls : ~CommentsRaise(hist_calls[n][2]))
        => C18_MalformedEntrySkippedByItself


\* A file that is missing or is not valid JSON.
CorruptFile(file) == file.kind \in {"missing", "invalid_json"}

\* The table of one process_* method after the first n recorded calls, had the
\* calls on corrupt files not been made.
RECURSIVE TableWithoutCorrupt(_, _)
TableWithoutCorrupt(method, n) ==
    IF n = 0 THEN <<>>
    ELSE LET before == TableWithoutCorrupt(method, n - 1)
             file == rank_calls[n][2]
         IN  IF rank_calls[n][1] # method \/ CorruptFile(file) THEN before
             ELSE CASE method = "process_prs" -> process_prs(file, before)
                    [] method = "process_reviews" -> process_reviews(file, before)
                    [] method = "process_issues_discussions" ->
                           process_issues_discussions(file, before)

\* The same for a first-occurrence map of the contributor history.
RECURSIVE MapWithoutCorrupt(_, _)
MapWithoutCorrupt(map, n) ==
    IF n = 0 THEN <<>>
    ELSE LET before == MapWithoutCorrupt(map, n - 1)
             file == hist_calls[n][2]
         IN  IF hist_calls[n][1] # map \/ CorruptFile(file) THEN before
             ELSE load_contributors_from_file(file, before)

\* C19: a file that is missing or is not valid JSON contributes nothing and
\* stops nothing: each contribution table and each first-occurrence map is
\* exactly what the other files, in their order, give without the calls on
\* corrupt files, and a call on a corrupt file does not end with an exception.
C19_CorruptFileContributesNothing ==
    /\ code_contributions = TableWithoutCorrupt("process_prs", Len(rank_calls))
    /\ review_contributions = TableWithoutCorrupt("process_reviews", Len(rank_calls))
    /\ community_contributions =
           TableWithoutCorrupt("process_issues_discussions", Len(rank_calls))
    /\ code_contributors = MapWithoutCorrupt("code", Len(hist_calls))
    /\ community_contributors = MapWithoutCorrupt("community", Len(hist_calls))
    /\ (rank_calls # <<>> /\ CorruptFile(rank_calls[Len(rank_calls)][2]))
           => rank_pc # "raised"
    /\ (hist_calls # <<>> /\ CorruptFile(hist_calls[Len(hist_calls)][2]))
           => hist_pc # "raised"

\* process_prs was given a file with a merged pull request of alice and then a
\* file that is not valid JSON; the code table still holds alice's pull request
\* and the rankings generated afterwards list her.
C19_Witness ==
    /\ rank_pc = "generated"
    /\ Len(rank_calls) = 2
    /\ rank_calls[1][1] = "process_prs"
    /\ rank_calls[1][2].kind = "list"
    /\ rank_calls[2] = <<"process_prs", [kind |-> "invalid_json", data |-> <<>>]>>
    /\ CountInMonth(code_contributions, alice, March) = 1
    /\ \E i \in DOMAIN rankings.monthly[March].code :
           rankings.monthly[March].code[i].author = alice


\* The repository whose stargazers are the k-th list of all_stargazers_info:
\* the loop of main appends a list and stores a history in the same pass.
StarRepositoryOf(k) ==
    CHOOSE r \in DOMAIN repo_histories :
        Cardinality({q \in DOMAIN repo_histories : q < r}) = k - 1

\* The count of the last entry of a series, 0 for an empty one.
LastCount(series, field) ==
    IF series = <<>> THEN 0 ELSE series[Len(series)][field]

\* The distinct users of the qualifying records of one repository.
RepositoryUsernames(k) ==
    {all_stargazers_info[k][i][1] : i \in 1..Len(all_stargazers_info[k])}

\* The star histories: each repository's and the total.
StarSeriesCountDistinctUsers ==
    /\ \A k \in 1..Len(all_stargazers_info) :
           LastCount(repo_histories[StarRepositoryOf(k)], "star_count")
               = Cardinality(RepositoryUsernames(k))
    /\ star_done =>
           LastCount(total_stars_history, "star_count") = Cardinality(StarUsernames)

\* The contributor histories: code, community and combined.
ContributorSeriesCountDistinctUsers ==
    hist_pc = "written" =>
        /\ LastCount(history_json.autoware_code_contributors, "contributors_count")
               = Cardinality({p[1] : p \in observed_code})
        /\ LastCount(history_json.autoware_community_contributors, "contributors_count")
               = Cardinality({p[1] : p \in observed_community})
        /\ LastCount(history_json.autoware_contributors, "contributors_count")
               = Cardinality({p[1] : p \in observed_code \cup observed_community})

\* C20: in every cumulative series written (the code, community and combined
\* contributor history, the star history of each repository, the total star
\* history) the count of the last entry is the number of distinct qualifying
\* users in the input of that series, also when a user occurs in several
\* records.
C20_LastCountIsDistinctUsers ==
    /\ StarSeriesCountDistinctUsers
    /\ ContributorSeriesCountDistinctUsers

\* The run is over; the file of one repository held two records of one user,
\* and the star history of that repository ends with the count 2.
C20_Witness ==
    /\ star_done
    /\ \E k \in 1..Len(all_stargazers_info) :
           /\ Len(all_stargazers_info[k]) = 2
           /\ Cardinality(RepositoryUsernames(k)) = 1
           /\ LastCount(repo_histories[StarRepositoryOf(k)], "star_count") = 2


-----------------------------------------------------------------------------
(* Claims about the star histories and the start date *)

\* The start date of the first-occurrence maps, as a day.
StartDay == <<2022, 1, 1>>

\* C21: the first-occurrence map of the stargazers keeps no star dated before
\* the start date 2022-01-01: no tuple kept by extract_stargazers_info has an
\* earlier day, and no entry of total_stars_history is dated before it.
C21_StarsHonourStartDate ==
    /\ \A t \in StarTuples : ~SeqLess(t[2], StartDay)
    /\ \A i \in 1..Len(total_stars_history) :
           ~SeqLess(total_stars_history[i].date, StrftimeYmd(StartDay))

\* The run is over; a user starred a repository on 2021-12-31 and the total
\* star history begins on that day with that star counted.
C21_Witness ==
    /\ star_done
    /\ \E t \in StarTuples : t[2] = <<2021, 12, 31>>
    /\ Len(total_stars_history) >= 1
    /\ total_stars_history[1].date = StrftimeYmd(<<2021, 12, 31>>)
    /\ total_stars_history[1].star_count >= 1


-----------------------------------------------------------------------------
(* convert_contributors_to_csv.py *)

\* The value of a decimal string.
RECURSIVE IntOf(_)
IntOf(digits) ==
    IF digits = <<>> THEN 0
    ELSE 10 * IntOf(SubSeq(digits, 1, Len(digits) - 1)) + (digits[Len(digits)] - 48)

\* datetime.strptime(x, '%Y-%m-%d') for a string written by strftime('%Y-%m-%d')
ParseYmd(x) == <<IntOf(SubSeq(x, 1, 4)), IntOf(SubSeq(x, 6, 7)), IntOf(SubSeq(x, 9, 10))>>

\* {item["date"]: item["contributors_count"] for item in series}: the last item
\* of a date gives its value.
SeriesDict(series) ==
    [date \in {series[i].date : i \in DOMAIN series} |->
        series[CHOOSE i \in DOMAIN series :
                   /\ series[i].date = date
                   /\ \A j \in DOMAIN series : series[j].date = date => j <= i
              ].contributors_count]

\* sorted(all_dates, key=lambda x: datetime.strptime(x, '%Y-%m-%d'))
SortedDates(all_dates) ==
    [i \in 1..Cardinality(all_dates) |->
        CHOOSE date \in all_dates :
            Cardinality({other \in all_dates :
                            SeqLess(ParseYmd(other), ParseYmd(date))}) = i - 1]

\* The count written in the i-th row for one series when a date without an
\* entry gets 0.
RECURSIVE CountInRow_NoCarry(_, _, _)
CountInRow_NoCarry(dict, sorted_dates, i) ==
    IF i = 0 THEN 0
    ELSE IF sorted_dates[i] \in DOMAIN dict THEN dict[sorted_dates[i]]
    ELSE 0

\* Lines 39-52: the count written in the i-th row for one series,
\* dict.get(date, last) with last the count of the row before (0 at first).
RECURSIVE CountInRow(_, _, _)
CountInRow(dict, sorted_dates, i) ==
    IF i = 0 THEN 0
    ELSE IF sorted_dates[i] \in DOMAIN dict THEN dict[sorted_dates[i]]
    ELSE CountInRow(dict, sorted_dates, i - 1)

\* json_data.get(key, [])
GetSeries(json_data, key) == IF key \in DOMAIN json_data THEN json_data[key] ELSE <<>>

\* convert_to_csv: the rows written after the header.
convert_to_csv(json_data) ==
    LET code_dict == SeriesDict(GetSeries(json_data, "autoware_code_contributors"))
        community_dict ==
            SeriesDict(GetSeries(json_data, "autoware_community_contributors"))
        autoware_dict == SeriesDict(GetSeries(json_data, "autoware_contributors"))
        sorted_dates ==
            SortedDates(DOMAIN code_dict \cup DOMAIN community_dict
                            \cup DOMAIN autoware_dict)
    IN  [i \in DOMAIN sorted_dates |->
            [date |-> sorted_dates[i],
             autoware_code_contributors |-> CountInRow(code_dict, sorted_dates, i),
             autoware_community_contributors |->
                 CountInRow(community_dict, sorted_dates, i),
             autoware_contributors |-> CountInRow(autoware_dict, sorted_dates, i)]]

\* The days of the input histories.
CsvDays == <<<<2022, 12, 31>>, <<2023, 3, 15>>, <<2023, 4, 2>>>>

\* New contributors on a day of a history.
CsvIncrements == {1, 2}

\* The series generate_cumulative_data writes: some of the days, ascending,
\* each with the running total of its new contributors.
RECURSIVE CsvSeriesUpTo(_)
CsvSeriesUpTo(n) ==
    IF n = 0 THEN {<<>>}
    ELSE LET shorter == CsvSeriesUpTo(n - 1)
         IN  shorter
                 \cup {Append(series,
                              [date |-> StrftimeYmd(CsvDays[n]),
                               contributors_count |->
                                   (IF series = <<>> THEN 0
                                    ELSE series[Len(series)].contributors_count) + inc]) :
                          series \in shorter, inc \in CsvIncrements}

CsvSeries == CsvSeriesUpTo(Len(CsvDays))

CsvInputs ==
    [autoware_code_contributors : CsvSeries,
     autoware_community_contributors : CsvSeries,
     autoware_contributors : CsvSeries]

InitCsv == CoreIdle /\ ToolIdle

\* main, line 84: load_json_data
LoadJsonData(json_data) ==
    /\ csv_pc = "load"
    /\ csv_json' = json_data
    /\ csv_pc' = "loaded"
    /\ UNCHANGED csv_rows
    /\ UNCHANGED notCsv

\* main, line 99: convert_to_csv
ConvertToCsv ==
    /\ csv_pc = "loaded"
    /\ csv_rows' = convert_to_csv(csv_json)
    /\ csv_pc' = "written"
    /\ UNCHANGED csv_json
    /\ UNCHANGED notCsv

NextCsv ==
    \/ \E json_data \in CsvInputs : LoadJsonData(json_data)
    \/ ConvertToCsv

SpecCsv == InitCsv /\ [][NextCsv]_vars

CsvColumns ==
    {"autoware_code_contributors", "autoware_community_contributors",
     "autoware_contributors"}

\* The dates of a series of the input.
DatesOf(column) == {csv_json[column][i].date : i \in DOMAIN csv_json[column]}

\* The value of a series on a date, or on its most recent earlier date, 0 when
\* it has neither.
ValueAtOrBefore(column, date) ==
    LET series == csv_json[column]
        upto == {i \in DOMAIN series : ~SeqLess(date, series[i].date)}
    IN  IF upto = {} THEN 0
        ELSE series[CHOOSE i \in upto :
                        \A j \in upto : ~SeqLess(series[i].date, series[j].date)
                   ].contributors_count

\* C22: the converter writes one row per distinct date of the union of the
\* three series, in ascending date order; each column of a row holds the value
\* of its series on that date or, without an entry on that date, the value on
\* the most recent earlier date, 0 when there is none; and every column is
\* non-decreasing down the rows.
C22_CsvRowsForwardFill ==
    csv_pc = "written" =>
        /\ {csv_rows[i].date : i \in DOMAIN csv_rows}
               = UNION {DatesOf(column) : column \in CsvColumns}
        /\ \A i \in 1..(Len(csv_rows) - 1) : SeqLess(csv_rows[i].date, csv_rows[i + 1].date)
        /\ \A i \in DOMAIN csv_rows : \A column \in CsvColumns :
               csv_rows[i][column] = ValueAtOrBefore(column, csv_rows[i].date)
        /\ \A i \in 1..(Len(csv_rows) - 1) : \A column \in CsvColumns :
               csv_rows[i][column] <= csv_rows[i + 1][column]

\* Three rows were written: the code series has no entry on the first date
\* (column 0), an entry on the second and none on the third, where the row
\* carries the value of the second forward.
C22_Witness ==
    /\ csv_pc = "written"
    /\ Len(csv_rows) = 3
    /\ DatesOf("autoware_code_contributors") = {csv_rows[2].date}
    /\ csv_rows[1].autoware_code_contributors = 0
    /\ csv_rows[2].autoware_code_contributors = 2
    /\ csv_rows[3].autoware_code_contributors = 2


-----------------------------------------------------------------------------
(* fetch_repositories.py: filter_and_rank_repositories *)

\* date.toordinal(): days since 0001-01-01, that day being 1.
IsLeapYear(year) == (year % 4 = 0) /\ ((year % 100 # 0) \/ (year % 400 = 0))

DaysBeforeYear(year) ==
    ((year - 1) * 365) + ((year - 1) \div 4) - ((year - 1) \div 100)
        + ((year - 1) \div 400)

DaysBeforeMonth(year, month) ==
    <<0, 31, 59, 90, 120, 151, 181, 212, 243, 273, 304, 334>>[month]
        + (IF month > 2 /\ IsLeapYear(year) THEN 1 ELSE 0)

ToOrdinal(d) == DaysBeforeYear(d[1]) + DaysBeforeMonth(d[1], d[2]) + d[3]

\* a < b - timedelta(days=days) for two datetimes: compared by day number and
\* second of the day.
BeforeMinusDays(a, b, days) ==
    SeqLess(<<ToOrdinal(a), a[4]>>, <<ToOrdinal(b) - days, b[4]>>)

\* datetime.strftime('%Y-%m-%dT%H:%M:%SZ')
StrftimeIso(d) ==
    StrftimeYmd(d) \o <<84>> \o Pad2(d[4] \div 3600) \o <<58>>
        \o Pad2((d[4] \div 60) % 60) \o <<58>> \o Pad2(d[4] % 60) \o <<90>>

\* The top of the active list: 25 in the script.
TopLimit == 2

\* "autoware_ai"
autoware_ai == <<97, 117, 116, 111, 119, 97, 114, 101, 95, 97, 105>>

\* repo.get("pushedAt") or repo.get("updatedAt")
UpdatedAtStr(repo) == IF TsTruthy(repo.pushedAt) THEN repo.pushedAt ELSE repo.updatedAt

\* Lines 162-165: None when the string does not parse or is None.
UpdatedAtKnown(repo) == StrptimeOk(UpdatedAtStr(repo))

\* Lines 167-174
RepoInfo(repo) ==
    [name |-> repo.name, stars |-> repo.stargazerCount, forks |-> repo.forkCount,
     score |-> repo.stargazerCount + repo.forkCount,
     is_archived |-> repo.isArchived, updated_at |-> UpdatedAtStr(repo)]

IsLegacy(repo) == StartsWith(repo.name, autoware_ai)

\* Lines 177-189: the repository reaches active_repos.append.
KeptActive(repo, now, cutoff_years) ==
    /\ ~IsLegacy(repo)
    /\ ~repo.isArchived
    /\ ~(/\ UpdatedAtKnown(repo)
         /\ BeforeMinusDays(Strptime(UpdatedAtStr(repo)), now, cutoff_years * 365))

\* A sort by ascending score.
ScoreInsert_Ascending(sorted, item) ==
    LET k == Cardinality({i \in DOMAIN sorted : sorted[i].score <= item.score})
    IN  SubSeq(sorted, 1, k) \o <<item>> \o SubSeq(sorted, k + 1, Len(sorted))

\* list.sort(key=lambda x: -x["score"]): stable, an item goes after those of
\* equal score that came before it.
ScoreInsert(sorted, item) ==
    LET k == Cardinality({i \in DOMAIN sorted : sorted[i].score >= item.score})
    IN  SubSeq(sorted, 1, k) \o <<item>> \o SubSeq(sorted, k + 1, Len(sorted))

RECURSIVE ScoreSort(_)
ScoreSort(infos) ==
    IF infos = <<>> THEN <<>>
    ELSE ScoreInsert(ScoreSort(SubSeq(infos, 1, Len(infos) - 1)), infos[Len(infos)])

\* active_repos[:25]
TopOf(sorted) ==
    SubSeq(sorted, 1, IF Len(sorted) < TopLimit THEN Len(sorted) ELSE TopLimit)

\* Lines 199-202: the names of top_active, then each legacy name not yet there.
RECURSIVE AllRepos(_, _)
AllRepos(all_repos, legacy_repos) ==
    IF legacy_repos = <<>> THEN all_repos
    ELSE AllRepos(IF \E i \in DOMAIN all_repos : all_repos[i] = Head(legacy_repos).name
                  THEN all_repos
                  ELSE Append(all_repos, Head(legacy_repos).name),
                  Tail(legacy_repos))

\* The infos of the repositories of a list that satisfy a test, in list order.
RECURSIVE InfosOf(_, _)
InfosOf(repos, kept) ==
    IF repos = <<>> THEN <<>>
    ELSE (IF Head(repos) \in kept THEN <<RepoInfo(Head(repos))>> ELSE <<>>)
             \o InfosOf(Tail(repos), kept)

filter_and_rank_repositories(repos, cutoff_years, now) ==
    LET elements == {repos[i] : i \in DOMAIN repos}
        active_repos ==
            ScoreSort(InfosOf(repos, {r \in elements : KeptActive(r, now, cutoff_years)}))
        legacy_repos == ScoreSort(InfosOf(repos, {r \in elements : IsLegacy(r)}))
        top_active == TopOf(active_repos)
    IN  [active |-> top_active,
         legacy |-> legacy_repos,
         repositories |-> AllRepos([i \in DOMAIN top_active |-> top_active[i].name],
                                   legacy_repos),
         metadata |-> [generated_at |-> StrftimeIso(now),
                       cutoff_years |-> cutoff_years,
                       total_fetched |-> Len(repos),
                       active_count |-> Len(top_active),
                       legacy_count |-> Len(legacy_repos)]]


\* Repositories of the organization in one fetch.
MaxRepos == 4

\* datetime.now() of the run, and the instant 730 days before it.
SelNow == <<2026, 11, 2, 43200>>

AtCutoff == <<2024, 11, 2, 43200>>

JustBeforeCutoff == <<2024, 11, 2, 43199>>

alpha == <<97, 108, 112, 104, 97>>

beta == <<98, 101, 116, 97>>

gamma == <<103, 97, 109, 109, 97>>

Repository(name, is_archived, stars, pushed_at, updated_at) ==
    [name |-> name, isArchived |-> is_archived, stargazerCount |-> stars,
     forkCount |-> 1, pushedAt |-> pushed_at, updatedAt |-> updated_at]

\* The repositories the organization may hold; GitHub keeps names unique.
SelRepositories ==
    {Repository(alpha, archived, stars, pushed, IsoTs(JustBeforeCutoff)) :
         archived \in BOOLEAN, stars \in {1, 2},
         pushed \in {IsoTs(<<2025, 6, 1, 0>>), NullTs}}
    \cup {Repository(alpha, archived, 2, NullTs, NullTs) : archived \in BOOLEAN}
    \cup {Repository(beta, FALSE, stars, pushed, IsoTs(<<2025, 6, 1, 0>>)) :
              stars \in {1, 2},
              pushed \in {IsoTs(AtCutoff), IsoTs(JustBeforeCutoff), TextTs}}
    \cup {Repository(gamma, FALSE, stars, IsoTs(<<2025, 6, 1, 0>>), NullTs) :
              stars \in {1, 2, 3}}
    \cup {Repository(autoware_ai, archived, 2, IsoTs(<<2020, 2, 29, 0>>), NullTs) :
              archived \in BOOLEAN}

\* Lists of at most n repositories with distinct names.
RECURSIVE SelListsUpTo(_)
SelListsUpTo(n) ==
    IF n = 0 THEN {<<>>}
    ELSE LET shorter == SelListsUpTo(n - 1)
         IN  shorter
                 \cup UNION {{Append(list, repo) :
                                 repo \in {r \in SelRepositories :
                                              \A i \in DOMAIN list :
                                                  list[i].name # r.name}} :
                                list \in shorter}

InitSelect == CoreIdle /\ ToolIdle

\* main, line 248: fetch_all_repositories returned the list.
FetchAllRepositories(repos) ==
    /\ sel_pc = "fetch"
    /\ sel_repos' = repos
    /\ sel_pc' = "fetched"
    /\ UNCHANGED sel_result
    /\ UNCHANGED notSel

\* main, lines 251-258: filter, rank and write.
FilterAndRank ==
    /\ sel_pc = "fetched"
    /\ sel_result' = filter_and_rank_repositories(sel_repos, 2, SelNow)
    /\ sel_pc' = "written"
    /\ UNCHANGED sel_repos
    /\ UNCHANGED notSel

NextSelect ==
    \/ \E repos \in SelListsUpTo(MaxRepos) : FetchAllRepositories(repos)
    \/ FilterAndRank

SpecSelect == InitSelect /\ [][NextSelect]_vars

\* The repositories of the input with a name.
FetchedNamed(name) == {sel_repos[i] : i \in {j \in DOMAIN sel_repos : sel_repos[j].name = name}}

\* The names returned: those of 'active' and those of 'repositories'.
SelectedNames ==
    {sel_result.active[i].name : i \in DOMAIN sel_result.active}
        \cup {sel_result.repositories[i] : i \in DOMAIN sel_result.repositories}

\* The last update of a repository is older than the cutoff of two years, or
\* cannot be determined.
OutdatedOrUnknown(repo) ==
    \/ ~UpdatedAtKnown(repo)
    \/ SeqLess(Strptime(UpdatedAtStr(repo)), AtCutoff)

\* C24: no archived repository is in the returned 'active' or 'repositories'
\* list, and no repository other than the autoware_ai legacy ones whose last
\* update is older than the cutoff, or cannot be determined, is in them.
C24_NoArchivedNoOutdated ==
    sel_pc = "written" =>
        \A name \in SelectedNames : \A repo \in FetchedNamed(name) :
            /\ ~repo.isArchived
            /\ IsLegacy(repo) \/ ~OutdatedOrUnknown(repo)

\* The result was written with an archived autoware_ai repository in
\* 'repositories'.
C24_Witness ==
    /\ sel_pc = "written"
    /\ \E i \in DOMAIN sel_result.repositories :
           /\ sel_result.repositories[i] = autoware_ai
           /\ \E repo \in FetchedNamed(autoware_ai) : repo.isArchived

\* The part of C24 the code keeps: no archived repository and no repository
\* with a known last update older than the cutoff is in 'active', and the
\* names of 'repositories' that are not legacy names are those of 'active'.
C24_ActiveNeitherArchivedNorKnownOld ==
    sel_pc = "written" =>
        /\ \A i \in DOMAIN sel_result.active :
               \A repo \in FetchedNamed(sel_result.active[i].name) :
                   /\ ~repo.isArchived
                   /\ ~IsLegacy(repo)
                   /\ UpdatedAtKnown(repo) =>
                          ~SeqLess(Strptime(UpdatedAtStr(repo)), AtCutoff)
        /\ \A i \in DOMAIN sel_result.repositories :
               \/ StartsWith(sel_result.repositories[i], autoware_ai)
               \/ \E j \in DOMAIN sel_result.active :
                      sel_result.active[j].name = sel_result.repositories[i]


\* The repositories of the input that pass the filters of lines 177-189.
Eligible == {repo \in {sel_repos[i] : i \in DOMAIN sel_repos} : KeptActive(repo, SelNow, 2)}

Score(repo) == repo.stargazerCount + repo.forkCount

\* C25: 'active' holds the top eligible repositories by score = stars + forks:
\* it has as many entries as there are eligible repositories, at most the limit
\* (25 in the script), each eligible and with that score, in non-increasing
\* score order; every eligible repository left out has a score no greater than
\* the lowest score selected; every autoware_ai legacy repository is in
\* 'repositories'; and 'repositories' holds no name twice.
C25_TopByScoreAndAllLegacy ==
    sel_pc = "written" =>
        LET active == sel_result.active
            names == sel_result.repositories
        IN  /\ Len(active) = (IF Cardinality(Eligible) < TopLimit
                              THEN Cardinality(Eligible) ELSE TopLimit)
            /\ \A i \in DOMAIN active :
                   \E repo \in Eligible :
                       /\ repo.name = active[i].name
                       /\ active[i].score = Score(repo)
            /\ \A i, j \in DOMAIN active : i < j => active[i].name # active[j].name
            /\ \A i \in 1..(Len(active) - 1) : active[i].score >= active[i + 1].score
            /\ \A repo \in Eligible :
                   (\A i \in DOMAIN active : active[i].name # repo.name)
                       => \A i \in DOMAIN active : Score(repo) <= active[i].score
            /\ \A i \in DOMAIN sel_repos :
                   IsLegacy(sel_repos[i])
                       => \E k \in DOMAIN names : names[k] = sel_repos[i].name
            /\ \A i, j \in DOMAIN names : i < j => names[i] # names[j]

\* Three repositories were eligible with scores 4, 3 and 2, fetched in another
\* order; 'active' holds the two highest, the third is left out, and the legacy
\* repository follows them in 'repositories'.
C25_Witness ==
    /\ sel_pc = "written"
    /\ Cardinality(Eligible) = 3
    /\ Len(sel_result.active) = 2
    /\ sel_result.active[1].score = 4
    /\ sel_result.active[2].score = 3
    /\ Score(sel_repos[1]) = 2
    /\ Len(sel_result.repositories) = 3
    /\ sel_result.repositories[3] = autoware_ai


-----------------------------------------------------------------------------
(* get_stargazers.py, get_contributors.py and fetch_repositories.py against  *)
(* the API.  A record of a collection is written as its cursor: the i-th     *)
(* record has cursor i, and the API only appends to a collection.            *)

\* A loop of execute_query with one more pass.
max_retries_OneMore == 5 + 1

\* max_retries of execute_query
max_retries == 5

\* Records in a page: first:100 in the queries.
PageSize == 2

\* Records of one collection at the API.
MaxUpstream == 3

\* Runs of main in a row.
MaxRuns == 2

FetchTools == {"stargazers", "contributors", "repositories"}

\* The collections main goes through, in order, each with the try block it is
\* fetched in: REPOSITORIES for the stargazers (the head of the list); the
\* autoware discussions, then issues and pull requests of each repository for
\* the contributors; the repositories of the organization.
Targets(tool) ==
    CASE tool = "stargazers" ->
             <<[repository |-> "autoware", collection |-> "stargazers", try |-> 1],
               [repository |-> "autoware_core", collection |-> "stargazers", try |-> 2]>>
      [] tool = "contributors" ->
             <<[repository |-> "autoware", collection |-> "discussions", try |-> 0],
               [repository |-> "autoware", collection |-> "issues", try |-> 1],
               [repository |-> "autoware", collection |-> "pullRequests", try |-> 1]>>
      [] tool = "repositories" ->
             <<[repository |-> "", collection |-> "repositories", try |-> 0]>>
      [] OTHER -> <<>>

\* No cache file for a target.
NoFile == <<0>>

CacheOf(target) == IF target \in DOMAIN cache THEN cache[target] ELSE NoFile

\* The cursor of the first cached record instead of the last.
get_last_cursor_First(cached_data) ==
    IF cached_data = <<>> THEN 0 ELSE cached_data[1]

\* get_last_cursor: None for an empty list, else the cursor of the last record.
get_last_cursor(cached_data) ==
    IF cached_data = <<>> THEN 0 ELSE cached_data[Len(cached_data)]

\* The start_cursor main passes to get_*: the last cached cursor with
\* --use-cache and an existing cache file, else none.
StartCursor(target) ==
    IF fetch_use_cache /\ CacheOf(target) # NoFile
    THEN get_last_cursor(CacheOf(target))
    ELSE 0

\* The API's answer to (first: PageSize, after: cursor) on a collection of n
\* records: the records that follow the cursor; after: null starts at the top.
PageAfter(n, cursor) ==
    [i \in 1..(IF n - cursor < PageSize THEN (IF n - cursor < 0 THEN 0 ELSE n - cursor)
               ELSE PageSize) |-> cursor + i]

\* range(max_retries): the loop of execute_query makes another attempt.
InRange(made) == made < max_retries

\* 'attempt < max_retries - 1', with attempt the index of the attempt that
\* just failed, which is the number of attempts made before it.
RetryAllowed(attempt) == attempt < max_retries - 1

\* The first target after this one that is fetched in another try block.
NextTry(tool, target) ==
    LET later == {u \in (target + 1)..Len(Targets(tool)) :
                     Targets(tool)[u].try # Targets(tool)[target].try}
    IN  IF later = {} THEN Len(Targets(tool)) + 1
        ELSE CHOOSE u \in later : \A v \in later : u <= v

\* What main does with the list get_* returned (get_stargazers.py lines
\* 276-303, get_contributors.py lines 295-318, 331-373): the cache file after.
CacheAfter(tool, target, edges) ==
    LET cached == CacheOf(target)
    IN  IF tool = "repositories" THEN cached
        ELSE IF StartCursor(target) # 0
        THEN (IF edges # <<>> THEN cached \o edges ELSE cached)
        ELSE IF tool = "stargazers" \/ edges # <<>> THEN edges
        ELSE cached

\* get_* returns: main stores the result and goes on to the next target.
Returned(edges) ==
    /\ cache' = [t \in DOMAIN cache \cup {fetch_target} |->
                    IF t = fetch_target
                    THEN CacheAfter(fetch_tool, fetch_target, edges)
                    ELSE cache[t]]
    /\ fetch_returned' = <<fetch_target, StartCursor(fetch_target), edges,
                           upstream[fetch_target]>>
    /\ fetch_ended' = <<"returned", "ok">>
    /\ fetch_target' = fetch_target + 1
    /\ fetch_pc' = "target"
    /\ fetch_edges' = edges
    /\ fetch_made' = fetch_made + 1
    /\ UNCHANGED <<fetch_kind, fetch_cursor>>

\* execute_query returns and the loop of get_* makes the next call.
NextCall(cursor, edges) ==
    /\ fetch_cursor' = cursor
    /\ fetch_edges' = edges
    /\ fetch_kind' = IF fetch_kind = "first" THEN "page" ELSE fetch_kind
    /\ fetch_made' = 0
    /\ fetch_ended' = <<"returned", "ok">>
    /\ UNCHANGED <<cache, fetch_returned, fetch_target, fetch_pc>>

\* An exception leaves execute_query: 'except Exception' of the try block
\* around the target prints it and main goes on with the next try block;
\* fetch_repositories.py has no try around fetch_all_repositories.
Raised(outcome) ==
    /\ fetch_ended' = <<"raised", outcome>>
    /\ IF fetch_tool = "repositories"
       THEN fetch_pc' = "crashed" /\ UNCHANGED fetch_target
       ELSE fetch_pc' = "target" /\ fetch_target' = NextTry(fetch_tool, fetch_target)
    /\ UNCHANGED <<cache, fetch_returned, fetch_kind, fetch_cursor, fetch_edges>>

\* sys.exit(1) in execute_query: SystemExit is not an Exception, so no
\* 'except Exception' catches it and the process ends.
Exited(outcome) ==
    /\ fetch_ended' = <<"exited", outcome>>
    /\ fetch_pc' = "exit1"
    /\ UNCHANGED <<cache, fetch_returned, fetch_target, fetch_kind, fetch_cursor,
                   fetch_edges>>

\* 'continue' in the loop of execute_query; line 96 when the range is over.
Continued(outcome) ==
    IF InRange(fetch_made + 1)
    THEN UNCHANGED <<cache, fetch_returned, fetch_ended, fetch_target, fetch_pc,
                     fetch_kind, fetch_cursor, fetch_edges>>
    ELSE Raised(outcome)

\* The response of an attempt without HTTP error and without GraphQL error, and
\* what get_first_cursor, get_* or fetch_all_repositories does with it.
Answered ==
    LET n == upstream[fetch_target]
        page == PageAfter(n, fetch_cursor)
        all_edges == fetch_edges \o page
    IN  CASE fetch_kind = "first" ->
                 IF n = 0 THEN Returned(<<>>) ELSE NextCall(1, <<>>)
          [] fetch_kind = "page" ->
                 IF page # <<>> THEN NextCall(page[Len(page)], all_edges)
                 ELSE Returned(all_edges)
          [] fetch_kind = "org" ->
                 IF fetch_cursor + Len(page) < n
                 THEN NextCall(page[Len(page)], all_edges)
                 ELSE Returned(all_edges)

FetchOutcomes ==
    {"ok", "http_403", "rate_limit_error", "graphql_error", "request_exception"}

InitFetch ==
    /\ CoreIdle
    /\ CsvIdle
    /\ SelIdle
    /\ fetch_tool \in FetchTools
    /\ upstream \in [1..Len(Targets(fetch_tool)) -> 0..MaxUpstream]
    /\ FetchAtStart

\* token or os.getenv("GITHUB_TOKEN"): the argument unless it is None or empty.
TokenOf(arg_token, env_token) == IF arg_token # <<>> THEN arg_token ELSE env_token

\* A client that takes any token.
TokenMissing_Never(token) == FALSE

\* 'not self.token': None or the empty string.
TokenMissing(token) == token = <<>>

\* main up to the construction of the client: argparse, then __init__ with
\* 'token or os.getenv("GITHUB_TOKEN")', ValueError and sys.exit(1) without one.
StartMain(arg_token, env_token, use_cache) ==
    /\ fetch_tool \in FetchTools
    /\ fetch_pc \in {"main", "done", "exit1", "crashed"}
    /\ fetch_runs < MaxRuns
    /\ fetch_tool = "repositories" => ~use_cache
    /\ fetch_runs' = fetch_runs + 1
    /\ fetch_use_cache' = use_cache
    /\ fetch_sent' = FALSE
    /\ fetch_ended' = <<>>
    /\ fetch_returned' = <<>>
    /\ fetch_made' = 0
    /\ fetch_edges' = <<>>
    /\ fetch_cursor' = 0
    /\ fetch_kind' = "first"
    /\ fetch_token' = TokenOf(arg_token, env_token)
    /\ IF TokenMissing(TokenOf(arg_token, env_token))
       THEN fetch_pc' = "exit1" /\ fetch_target' = 0
       ELSE fetch_pc' = "target" /\ fetch_target' = 1
    /\ UNCHANGED <<upstream, cache, fetch_tool>>
    /\ UNCHANGED notFetch

\* The loop of main takes the next collection, or main ends.
BeginTarget ==
    /\ fetch_pc = "target"
    /\ IF fetch_target > Len(Targets(fetch_tool))
       THEN /\ fetch_pc' = "done"
            /\ UNCHANGED <<fetch_kind, fetch_cursor, fetch_edges, fetch_made>>
       ELSE /\ fetch_pc' = "query"
            /\ fetch_kind' = IF fetch_tool = "repositories" THEN "org"
                             ELSE IF StartCursor(fetch_target) # 0 THEN "page"
                             ELSE "first"
            /\ fetch_cursor' = StartCursor(fetch_target)
            /\ fetch_edges' = <<>>
            /\ fetch_made' = 0
    /\ UNCHANGED <<upstream, cache, fetch_tool, fetch_token, fetch_use_cache,
                   fetch_target, fetch_sent, fetch_ended, fetch_returned, fetch_runs>>
    /\ UNCHANGED notFetch

\* One pass of the loop of execute_query: requests.post and what follows it.
Attempt(outcome) ==
    /\ fetch_pc = "query"
    /\ InRange(fetch_made)
    /\ fetch_sent' = TRUE
    /\ IF outcome = "ok"
       THEN Answered
       ELSE /\ fetch_made' = fetch_made + 1
            /\ CASE outcome = "http_403" ->
                        IF RetryAllowed(fetch_made) THEN Continued(outcome)
                        ELSE Raised(outcome)
                 [] outcome = "rate_limit_error" ->
                        IF fetch_tool # "repositories" /\ RetryAllowed(fetch_made)
                        THEN Continued(outcome)
                        ELSE Raised(outcome)
                 [] outcome = "graphql_error" -> Raised(outcome)
                 [] outcome = "request_exception" ->
                        IF RetryAllowed(fetch_made) THEN Continued(outcome)
                        ELSE Exited(outcome)
    /\ UNCHANGED <<upstream, fetch_tool, fetch_token, fetch_use_cache, fetch_runs>>
    /\ UNCHANGED notFetch

\* Between runs the API appends a record to a collection.
UpstreamGrows(target) ==
    /\ fetch_pc \in {"done", "exit1", "crashed"}
    /\ fetch_runs < MaxRuns
    /\ upstream[target] < MaxUpstream
    /\ upstream' = [upstream EXCEPT ![target] = upstream[target] + 1]
    /\ UNCHANGED <<cache, fetch_tool, fetch_token, fetch_use_cache, fetch_pc,
                   fetch_target, fetch_kind, fetch_cursor, fetch_edges, fetch_made,
                   fetch_sent, fetch_ended, fetch_returned, fetch_runs>>
    /\ UNCHANGED notFetch

NextFetch ==
    \/ \E arg_token, env_token \in {<<>>, <<116>>}, use_cache \in BOOLEAN :
           StartMain(arg_token, env_token, use_cache)
    \/ BeginTarget
    \/ \E outcome \in FetchOutcomes : Attempt(outcome)
    \/ \E target \in DOMAIN upstream : UpstreamGrows(target)

SpecFetch == InitFetch /\ [][NextFetch]_vars


\* C23: a fetch tool started without a token as argument and without one in
\* the environment exits with status 1 before any HTTP request is sent: in a
\* run whose client has no token, main is at sys.exit(1), no request was sent
\* and no collection was taken up.
C23_NoTokenExitsBeforeAnyRequest ==
    (fetch_runs > 0 /\ fetch_token = <<>>) =>
        /\ fetch_pc = "exit1"
        /\ ~fetch_sent
        /\ fetch_target = 0

\* A second run was started without a token after a run with one had fetched
\* and written a cache: it is at sys.exit(1) and has sent nothing.
C23_Witness ==
    /\ fetch_runs = 2
    /\ fetch_token = <<>>
    /\ fetch_pc = "exit1"
    /\ ~fetch_sent
    /\ \E target \in DOMAIN cache : cache[target] # NoFile /\ cache[target] # <<>>


-----------------------------------------------------------------------------
(* Claims about the community table, on the recorded calls *)

\* A timestamp of the given month that parses.
InMonthOf(ts, year, month) == ts.tag = "iso" /\ ts.dt[1] = year /\ ts.dt[2] = month

\* The posts of a person in a month that process_issues_discussions reached:
\* those up to the entry where the method ended.
PostsBy(author, year, month) ==
    Cardinality({slot \in PostSlots :
                    /\ slot[2] <= EdgesReached(rank_calls[slot[1]][2].data)
                    /\ EdgeAt(slot).is_edge
                    /\ EdgeAt(slot).has_author
                    /\ EdgeAt(slot).login = author
                    /\ InMonthOf(EdgeAt(slot).createdAt, year, month)})

\* The comments of a person in a month that process_issues_discussions read,
\* on anybody's post.
CommentsBy(author, year, month) ==
    Cardinality({slot \in CommentSlots("process_issues_discussions") :
                    LET comment == EdgeAt(slot).comments[slot[3]]
                    IN  /\ EdgeAt(slot).has_comments
                        /\ comment.has_node
                        /\ comment.has_author
                        /\ comment.login = author
                        /\ InMonthOf(comment.createdAt, year, month)})

\* C26: the community count of a person for a month is the number of that
\* person's qualifying posts plus the number of that person's qualifying
\* comments created in that month, whoever wrote the post commented on.
C26_CommunityCountsPostsAndComments ==
    \A author \in {alice, bob} :
        /\ CountInMonth(community_contributions, author, March)
               = PostsBy(author, 2023, 3) + CommentsBy(author, 2023, 3)
        /\ CountInMonth(community_contributions, author, January2022)
               = PostsBy(author, 2022, 1) + CommentsBy(author, 2022, 1)

\* process_issues_discussions was given a post of alice with a comment of bob
\* and then a post of alice with her own comment: alice has 3, bob has 1.
C26_Witness ==
    /\ Len(rank_calls) = 2
    /\ \A n \in DOMAIN rank_calls :
           /\ rank_calls[n][1] = "process_issues_discussions"
           /\ rank_calls[n][2].kind = "list"
           /\ Len(rank_calls[n][2].data) = 1
    /\ PostsBy(alice, 2023, 3) = 2
    /\ CommentsBy(alice, 2023, 3) = 1
    /\ CommentsBy(bob, 2023, 3) = 1
    /\ CountInMonth(community_contributions, alice, March) = 3
    /\ CountInMonth(community_contributions, bob, March) = 1


-----------------------------------------------------------------------------
(* Claims about the fetch tools *)

\* The cursors of a cache file are in upstream order, each once.
EachOnce(file) == \A i, j \in DOMAIN file : i < j => file[i] < file[j]

\* The records of a collection of n records that follow a cursor.
RecordsAfter(n, cursor) == [i \in 1..(IF n > cursor THEN n - cursor ELSE 0) |-> cursor + i]

\* C27: the incremental cache update never duplicates and is idempotent: every
\* cache file holds each upstream record at most once; a step of a run with
\* --use-cache on a collection that has a cache file leaves the cached records
\* as a prefix of the file; when the file had records the step appends exactly
\* the upstream records after the cursor of the last cached one; and when there
\* is no record after that cursor the file is unchanged.
C27_IncrementalUpdateAppendsOnce ==
    [][\A target \in DOMAIN cache' :
          LET before == CacheOf(target)
              after == cache'[target]
              n == upstream[target]
          IN  /\ after # NoFile =>
                     EachOnce(after) /\ \A i \in DOMAIN after : after[i] \in 1..n
              /\ (fetch_use_cache /\ before # NoFile) =>
                     /\ Len(after) >= Len(before)
                     /\ SubSeq(after, 1, Len(before)) = before
                     /\ (before # <<>> /\ after # before) =>
                            after = before \o RecordsAfter(n, get_last_cursor(before))
                     /\ (before # <<>> /\ get_last_cursor(before) >= n) =>
                            after = before]_vars

\* A run with --use-cache found the cache of an earlier run and one new record
\* at the API, and appended it.
C27_Witness ==
    /\ fetch_runs = 2
    /\ fetch_use_cache
    /\ fetch_returned = <<1, 2, <<3>>, 3>>
    /\ cache[1] = <<2, 3>>


\* C28: a full fetch (one without start cursor) by get_stargazers or
\* get_contributors returns every edge of the collection in upstream order,
\* the first edge included: for a collection of n records the returned list
\* is records 1 to n.
C28_FullFetchReturnsEveryEdge ==
    (/\ fetch_tool \in {"stargazers", "contributors"}
     /\ fetch_returned # <<>>
     /\ fetch_returned[2] = 0) =>
        fetch_returned[3] = RecordsAfter(fetch_returned[4], 0)

\* get_stargazers made a full fetch of a collection of three records, served
\* in two pages, and returned.
C28_Witness ==
    /\ fetch_tool = "stargazers"
    /\ fetch_returned # <<>>
    /\ fetch_returned[2] = 0
    /\ fetch_returned[4] = 3
    /\ Len(fetch_returned[3]) >= 2

\* What a full fetch does return: every edge after the first one.
C28_FullFetchOmitsFirstEdge ==
    (/\ fetch_tool \in {"stargazers", "contributors"}
     /\ fetch_returned # <<>>
     /\ fetch_returned[2] = 0) =>
        fetch_returned[3] = RecordsAfter(fetch_returned[4], 1)


\* C29: execute_query ends after at most 5 HTTP attempts per call: an attempt
\* is made only when fewer than 5 were made in the call; after it the call
\* either goes on to another attempt, with fewer than 5 made, or ends: by
\* returning the data of an attempt without HTTP or GraphQL error, by raising,
\* or by exiting the process.
C29_ExecuteQueryEndsWithinFiveAttempts ==
    [][fetch_pc = "query" =>
          /\ fetch_made < 5
          /\ fetch_sent'
          /\ \/ /\ fetch_pc' = "query"
                /\ fetch_made' = fetch_made + 1
                /\ fetch_made' < 5
                /\ fetch_ended' = fetch_ended
             \/ /\ fetch_ended' = <<"returned", "ok">>
                /\ fetch_pc' \in {"query", "target"}
                /\ fetch_pc' = "query" => fetch_made' = 0
             \/ /\ fetch_ended' # <<>>
                /\ fetch_ended'[1] = "raised"
                /\ fetch_ended'[2] \in FetchOutcomes \ {"ok", "request_exception"}
                /\ fetch_pc' \in {"target", "crashed"}
             \/ /\ fetch_ended' = <<"exited", "request_exception">>
                /\ fetch_made' = 5
                /\ fetch_pc' = "exit1"]_vars

\* A call returned on its fifth attempt, after four attempts that failed.
C29_Witness ==
    /\ fetch_made = 5
    /\ fetch_ended = <<"returned", "ok">>
    /\ fetch_pc = "target"


\* main is in its loop over the repositories.
InRepositoryLoop ==
    /\ fetch_tool \in {"stargazers", "contributors"}
    /\ fetch_target \in DOMAIN Targets(fetch_tool)
    /\ Targets(fetch_tool)[fetch_target].try >= 1

\* C30: in the loop over the repositories of get_stargazers and
\* get_contributors, a failure while fetching one repository, a request that
\* still fails after all retries included, never ends the run: main is never
\* stopped at a repository of the loop.
C30_FailureNeverEndsTheRun ==
    InRepositoryLoop => fetch_pc \notin {"exit1", "crashed"}

\* The first repository of get_stargazers failed with a request exception on
\* each of its five attempts, and the second was never taken up.
C30_Witness ==
    /\ fetch_tool = "stargazers"
    /\ fetch_runs = 1
    /\ fetch_target = 1
    /\ fetch_made = 5
    /\ fetch_ended = <<"exited", "request_exception">>
    /\ fetch_pc = "exit1"
    /\ 2 \notin DOMAIN cache

\* What the loop does survive: an exception that execute_query raises leaves
\* main at the next try block, and the process ends inside the loop only by
\* the sys.exit(1) after a request exception on the fifth attempt.
C30_RaisedFailureGoesOn ==
    /\ (InRepositoryLoop /\ fetch_pc \in {"exit1", "crashed"}) =>
           fetch_ended = <<"exited", "request_exception">> /\ fetch_made = 5
    /\ (fetch_tool \in {"stargazers", "contributors"} /\ fetch_ended # <<>>
            /\ fetch_ended[1] = "raised") =>
           fetch_pc \in {"target", "query", "done"}

====
